---- MODULE Spec2Model ----
(***************************************************************************)
(* Model of scripts/sync_merged_prs_to_daily_updates.py: the incremental   *)
(* GitHub sync (main) with its sync-state file, index file, day-bucket     *)
(* files and legacy daily-updates.json; and of the three snapshot          *)
(* generators scripts/generate_*.py with their output file.                *)
(*                                                                         *)
(* Time is an integer count of ticks; a calendar day is DayLen ticks.      *)
(* A file is <<>> when it does not exist and <<doc>> when it holds doc.    *)
(* The day-bucket directory is a function from the day names that have a   *)
(* file to the file's document.  A document that is not a JSON object is   *)
(* the record [json |-> kind]: "empty" and "partial" do not parse, "array" *)
(* parses to a list.                                                       *)
(***************************************************************************)
EXTENDS Integers, Sequences, FiniteSets, TLC

VARIABLES
    stateFile,            \* config/pr-sync-state.json
    indexFile,            \* config/daily-updates/index.json
    dayFiles,             \* config/daily-updates/<day>.json
    legacyFile,           \* config/daily-updates.json
    now,                  \* the wall clock read by _utc_now()
    pc,                   \* position of the one sync process in main
    args,                 \* parsed command line of the run
    run_at,
    days,                 \* daily_index["days"]
    daily_by_day,
    existing_urls,
    last_pr_sync,
    last_commit_sync,
    pr_since_date,
    commit_since_date,
    raw_prs,
    raw_commits,
    new_items,
    max_seen_pr_sync,
    max_seen_commit_sync,
    new_prs_added,
    new_commits_added,
    touched_days,
    added_urls,
    pending,              \* touched days not yet written, in write order
    eligible_prs,         \* history: the returned PRs that pass every check of the loop
    eligible_commits,     \* history: the returned commits that pass every check
    returned,             \* history: how many items the run's searches returned
    plain,                \* history: what the PR loop does on the same input without an API key
    dropped,              \* history: the items the loops skipped, each with the reason logged
    allowed_logins,
    allow_fetch,          \* history: how the two requests for the allowed logins ended
    raised_by,            \* history: the call whose exception ended the run, "none" otherwise
    pre,                  \* history: the files as they were when the run began
    writes,               \* history: the files written by the run, in order
    other,                \* the locals of a second sync process while it is not scheduled
    gen_name,             \* which generator script runs, "none" when the sync is modelled
    gen_pc,               \* position of the generator process in its main
    gen_files,            \* the output path and its sibling .tmp path
    gen_payload,          \* the snapshot built by the run, <<>> before
    gen_exit,             \* <<>>, or <<code>> once main has returned
    gen_pre,              \* history: the output file when the run began
    gen_failed,           \* history: an external fetch or query of the run failed
    gen_rows,             \* history: str(row.id) of the rows the query returned
    search_pc,            \* position of one search poll, "idle" when main is modelled
    search_kind,          \* "prs" for _search_merged_prs, "commits" for _search_commits
    upstream,             \* the pages the search API holds for the query
    max_items,
    search_items,         \* items of the poll
    search_page,          \* page of the poll
    requested,            \* history: the page numbers requested, in order
    results,              \* what the two searches return in every run, <<>> when each run draws its own
    killed                \* history: <<>>, or the run that was last killed between its writes

disk == <<stateFile, indexFile, dayFiles, legacyFile>>
loaded == <<days, daily_by_day, existing_urls>>
cursors == <<last_pr_sync, last_commit_sync, pr_since_date, commit_since_date>>
polled == <<raw_prs, raw_commits>>
accepted == <<new_items, max_seen_pr_sync, max_seen_commit_sync, new_prs_added, new_commits_added>>
merged == <<touched_days, added_urls, pending>>
eligible == <<eligible_prs, eligible_commits, returned, plain, dropped>>
authors == <<allowed_logins, allow_fetch>>
gen == <<gen_name, gen_pc, gen_files, gen_payload, gen_exit, gen_pre, gen_failed, gen_rows>>
sync == <<stateFile, indexFile, dayFiles, legacyFile, now, pc, args, run_at,
          days, daily_by_day, existing_urls, last_pr_sync, last_commit_sync,
          pr_since_date, commit_since_date, raw_prs, raw_commits, new_items,
          max_seen_pr_sync, max_seen_commit_sync, new_prs_added,
          new_commits_added, touched_days, added_urls, pending, eligible_prs,
          eligible_commits, returned, plain, dropped, raised_by, allowed_logins,
          allow_fetch, pre, writes, other>>
search == <<search_pc, search_kind, upstream, max_items, search_items, search_page, requested>>
resume == <<results, killed>>
vars == <<sync, gen, search, resume>>

----------------------------------------------------------------------------
(* Bounds of the model *)

MaxRuns == 2          \* runs of the script in one behaviour
MaxRaw == 2           \* items one search returns
MaxRows == 2          \* rows the orders query returns
MaxAdded == 52        \* items one run with the default ceilings has accepted
IdVariants == 2       \* different ids of one length
IdLengths == {1, 19, 20, 21, 24, 36}

(* Program constants *)

DayLen == 2           \* ticks in one calendar day (dt.timedelta(days=1))
BootstrapDays == 1    \* --bootstrap-days
AddedUrlsCap == 50    \* added_urls[:50]

\* the clock reading when the first run starts
FirstRunAt == BootstrapDays * DayLen

----------------------------------------------------------------------------
(* Sequences *)

NoFile == <<>>
File(doc) == <<doc>>
Exists(f) == f # <<>>
Doc(f) == f[1]

\* a file's content that json.load rejects, or that is no JSON object
Damaged(kind) == [json |-> kind]

\* isinstance(doc, dict), for a text that json.load accepts
Whole(doc) == "json" \notin DOMAIN doc

Range(s) == {s[i] : i \in 1..Len(s)}

Max2(a, b) == IF a >= b THEN a ELSE b

SeqsUpTo(S, n) == UNION {[1..k -> S] : k \in 0..n}

RECURSIVE SortedDesc(_)
\* sorted(S, reverse=True) of a set of integers
SortedDesc(S) ==
    IF S = {} THEN <<>>
    ELSE LET m == CHOOSE x \in S : \A y \in S : y <= x
         IN  <<m>> \o SortedDesc(S \ {m})

RECURSIVE InsertByTsDesc(_, _)
\* x goes after every element whose ts is >= its own: the sort is stable
InsertByTsDesc(x, s) ==
    IF s = <<>> THEN <<x>>
    ELSE IF Head(s).ts >= x.ts THEN <<Head(s)>> \o InsertByTsDesc(x, Tail(s))
    ELSE <<x>> \o s

RECURSIVE SortByTsDesc(_)
\* list.sort(key=lambda x: x[0], reverse=True)
SortByTsDesc(s) ==
    IF s = <<>> THEN <<>>
    ELSE InsertByTsDesc(s[Len(s)], SortByTsDesc(SubSeq(s, 1, Len(s) - 1)))

RECURSIVE FirstOccurrences(_)
\* the distinct elements of s in order of first occurrence
FirstOccurrences(s) ==
    IF s = <<>> THEN <<>>
    ELSE LET r == FirstOccurrences(SubSeq(s, 1, Len(s) - 1))
         IN  IF s[Len(s)] \in Range(r) THEN r ELSE Append(r, s[Len(s)])

Prefix(s, n) == SubSeq(s, 1, IF Len(s) < n THEN Len(s) ELSE n)

----------------------------------------------------------------------------
(* Timestamps *)

\* datetime.date() of a UTC datetime
DateOf(t) == t \div DayLen

\* dt.isoformat().replace("+00:00", "Z") of a UTC datetime: date, time of day, zone
IsoFormatZ(t) == [date |-> t \div DayLen, time |-> t % DayLen, tz |-> "Z"]

\* the zone suffix of a text as ticks ahead of UTC: half a day is one tick; a
\* text without suffix is taken as UTC
UtcOffset(tz) ==
    CASE tz = "Z"      -> 0
      [] tz = ""       -> 0
      [] tz = "+12:00" -> 1
      [] tz = "-12:00" -> 0 - 1

\* the ISO text an upstream writing in zone tz gives for the instant t
IsoFormat(t, tz) ==
    [date |-> (t + UtcOffset(tz)) \div DayLen, time |-> (t + UtcOffset(tz)) % DayLen, tz |-> tz]

\* fault: the zone suffix is not applied
parse_iso_datetime_local(v) == v.date * DayLen + v.time

\* _parse_iso_datetime: the instant in UTC
parse_iso_datetime(v) == v.date * DayLen + v.time - UtcOffset(v.tz)

----------------------------------------------------------------------------
(* What the upstream can return.  A URL determines the item: the same pull *)
(* request or commit always carries the same timestamp.  skip names the    *)
(* one check of main, other than the cursor and author checks, that the    *)
(* item fails, "none" when it fails none; author is the login, "" when the *)
(* item has none.  at                                                      *)
(* is the instant the merge or commit happened; the program reads only the *)
(* text made from it.                                                      *)

PrUniverse ==
    { [url |-> "p1", repo |-> "api", number |-> "1", title |-> "Fix login",
       author |-> "Alice", at |-> 3, merged_at |-> IsoFormat(3, "Z"), skip |-> "none"],
      [url |-> "p2", repo |-> "web", number |-> "2", title |-> "Add page",
       author |-> "bob", at |-> 5, merged_at |-> IsoFormat(5, "+12:00"), skip |-> "none"],
      [url |-> "p3", repo |-> "api", number |-> "3", title |-> "Bump deps",
       author |-> "", at |-> 7, merged_at |-> IsoFormat(7, ""), skip |-> "none"] }

CommitUniverse ==
    { [url |-> "c1", repo |-> "github", sha |-> "abc1234", subject |-> "Tidy up",
       author |-> "Carol", at |-> 4, date |-> IsoFormat(4, "-12:00"), skip |-> "none"],
      [url |-> "c2", repo |-> "Roadmap", sha |-> "def5678", subject |-> "Sync",
       author |-> "dave", at |-> 7, date |-> IsoFormat(7, "Z"), skip |-> "repo_excluded"] }

\* the legacy daily-updates.json documents a first run can find
LegacyDocs ==
    { [items |-> << [date |-> 1, item |-> [url |-> "L1", kind |-> "legacy",
                                           title |-> <<"L1">>, tags |-> <<>>]],
                    [date |-> 0, item |-> [url |-> "L2", kind |-> "legacy",
                                           title |-> <<"L2">>, tags |-> <<>>]],
                    [date |-> 1, item |-> [url |-> "p1", kind |-> "pr",
                                           title |-> <<"p1">>, tags |-> <<>>]] >>] }

\* the values of --max-new and --max-new-commits that are tried
Ceilings == {1, 2}

\* openai is bool(os.environ.get(args.openai_api_key_env))
Args == [dry_run : BOOLEAN, max_new : Ceilings, max_new_commits : Ceilings,
         openai : {FALSE}, author_filter : {"org"}]

\* the runs that have an API key for the text generation, and those that do not
ArgsEnrich == [dry_run : {FALSE}, max_new : {2}, max_new_commits : {2},
               openai : BOOLEAN, author_filter : {"org"}]

\* the runs with each value of --author-filter
ArgsAuthors == [dry_run : {FALSE}, max_new : {2}, max_new_commits : {2},
                openai : {FALSE}, author_filter : {"org", "none"}]

NoArgs == [dry_run |-> FALSE, max_new |-> 0, max_new_commits |-> 0, openai |-> FALSE,
           author_filter |-> "none"]
NoPre == [stateFile |-> NoFile, indexFile |-> NoFile, dayFiles |-> <<>>, legacyFile |-> NoFile]
EmptyMap == <<>>
NoPlain == [new_items |-> <<>>, added |-> 0, max_seen |-> 0]

----------------------------------------------------------------------------
(* The allowed logins *)

\* what /orgs/{org}/members and /orgs/{org}/outside_collaborators list
OrgMembers == {"alice", "Bob"}
OutsideCollaborators == {"carol"}

\* str.lower() on the logins of the model
Lower(login) ==
    CASE login = "Alice" -> "alice"
      [] login = "Bob"   -> "bob"
      [] login = "Carol" -> "carol"
      [] OTHER           -> login

\* how the two requests can end
FetchOutcomes == [members : {"ok", "failed"}, outside : {"ok", "failed"}]
FetchedBoth == [members |-> "ok", outside |-> "ok"]
NotFetched == [members |-> "not asked", outside |-> "not asked"]

\* _github_get_allowed_logins: each request in its own try/except
github_get_allowed_logins(f) ==
    ( (IF f.members = "ok" THEN {Lower(l) : l \in OrgMembers} ELSE {})
      \cup (IF f.outside = "ok" THEN {Lower(l) : l \in OutsideCollaborators} ELSE {}) )
    \ {""}

\* fault: an item without author login is let through
author_skip_unless_absent(filter, allowed, login) ==
    IF filter # "org" THEN "none"
    ELSE IF login = "" THEN "none"
    ELSE IF Lower(login) \notin allowed THEN "author_not_allowed"
    ELSE "none"

\* if args.author_filter == "org": the reason the item is skipped for, or "none"
author_skip(filter, allowed, login) ==
    IF filter # "org" THEN "none"
    ELSE IF login = "" THEN "no_author_login"
    ELSE IF Lower(login) \notin allowed THEN "author_not_allowed"
    ELSE "none"

----------------------------------------------------------------------------
(* Documents *)

\* _day_doc
day_doc(day, items) == [date |-> day, items |-> items]

\* _index_doc: title and subtitle are carried over, days is replaced
index_doc(ds) == [title |-> "Daily Updates", subtitle |-> "", days |-> ds]

\* fault: a title of white space only is let through
index_raises_unless_blank_title(doc) ==
    IF ~Whole(doc) THEN TRUE
    ELSE IF "title" \notin DOMAIN doc THEN TRUE
    ELSE IF "subtitle" \notin DOMAIN doc THEN TRUE
    ELSE "days" \notin DOMAIN doc

\* _coerce_daily_updates_index raises ValueError, or _read_json raised before it
index_raises(doc) ==
    IF ~Whole(doc) THEN TRUE
    ELSE IF "title" \notin DOMAIN doc THEN TRUE
    ELSE IF doc.title = "" THEN TRUE
    ELSE IF "subtitle" \notin DOMAIN doc THEN TRUE
    ELSE "days" \notin DOMAIN doc

\* _coerce_daily_day: the items that have a url and a title, in file order
coerce_daily_day(items) == SelectSeq(items, LAMBDA it : it.url # "" /\ it.title # <<>>)

\* try: _read_json ; _coerce_daily_day  except Exception: items = []
load_day(doc) ==
    IF Whole(doc) /\ "items" \in DOMAIN doc THEN coerce_daily_day(doc.items) ELSE <<>>

\* _read_json(state_path) raises, or state.get fails on a document that is a list
state_raises(doc) == ~Whole(doc)

\* fault: last_pr_sync and last_commit_sync are passed in each other's place
state_doc_swapped(pr_sync, commit_sync, run, urls) ==
    [ last_sync        |-> IsoFormatZ(Max2(pr_sync, commit_sync)),
      last_pr_sync     |-> IsoFormatZ(commit_sync),
      last_commit_sync |-> IsoFormatZ(pr_sync),
      last_run_at      |-> IsoFormatZ(run),
      last_added_urls  |-> Prefix(urls, AddedUrlsCap) ]

\* fault: last_run_at is given the cursor instead of the run's start time
state_doc_stale_run_at(pr_sync, commit_sync, run, urls) ==
    [ last_sync        |-> IsoFormatZ(Max2(pr_sync, commit_sync)),
      last_pr_sync     |-> IsoFormatZ(pr_sync),
      last_commit_sync |-> IsoFormatZ(commit_sync),
      last_run_at      |-> IsoFormatZ(Max2(pr_sync, commit_sync)),
      last_added_urls  |-> Prefix(urls, AddedUrlsCap) ]

\* fault: added_urls is stored whole
state_doc_uncut(pr_sync, commit_sync, run, urls) ==
    [ last_sync        |-> IsoFormatZ(Max2(pr_sync, commit_sync)),
      last_pr_sync     |-> IsoFormatZ(pr_sync),
      last_commit_sync |-> IsoFormatZ(commit_sync),
      last_run_at      |-> IsoFormatZ(run),
      last_added_urls  |-> urls ]

\* the document _save_state writes
state_doc(pr_sync, commit_sync, run, urls) ==
    [ last_sync        |-> IsoFormatZ(Max2(pr_sync, commit_sync)),
      last_pr_sync     |-> IsoFormatZ(pr_sync),
      last_commit_sync |-> IsoFormatZ(commit_sync),
      last_run_at      |-> IsoFormatZ(run),
      last_added_urls  |-> Prefix(urls, AddedUrlsCap) ]

\* a field holding "" or null
Blank == [text |-> ""]

\* the truth value python gives state.get(field)
Truthy(state, field) == field \in DOMAIN state /\ "text" \notin DOMAIN state[field]

\* fault: the single cursor of the old format is preferred to the field itself
raw_cursor_legacy_first(state, field) ==
    IF Truthy(state, "last_sync") THEN <<state.last_sync>>
    ELSE IF Truthy(state, field) THEN <<state[field]>>
    ELSE <<>>

\* state.get(field) or state.get("last_sync"): <<value>>, or <<>> when neither
\* holds a text
raw_cursor(state, field) ==
    IF Truthy(state, field) THEN <<state[field]>>
    ELSE IF Truthy(state, "last_sync") THEN <<state.last_sync>>
    ELSE <<>>

\* fault: the state file is not read and both cursors are the bootstrap default
load_state_bootstrap(file, clock) ==
    <<clock - BootstrapDays * DayLen, clock - BootstrapDays * DayLen>>

\* _load_state: (last_pr_sync, last_commit_sync)
load_state(file, clock) ==
    LET fallback == clock - BootstrapDays * DayLen
        cursor(field) ==
            LET raw == raw_cursor(Doc(file), field)
            IN  IF raw # <<>> THEN parse_iso_datetime(raw[1]) ELSE fallback
    IN  IF ~Exists(file) THEN <<fallback, fallback>>
        ELSE <<cursor("last_pr_sync"), cursor("last_commit_sync")>>

\* dict.get(day, [])
Get(f, d) == IF d \in DOMAIN f THEN f[d] ELSE <<>>

UrlsOf(items) == {items[i].url : i \in 1..Len(items)}

----------------------------------------------------------------------------
(* The text generation.  A text is a sequence of tokens: "{" "}" "[" "]",  *)
(* " " for white space, "w" for prose, and one token for each member of    *)
(* the answer: "T" a title that is a non-blank string, "S" such a summary, *)
(* "G" a list of tags, and "T0" "S0" "G0" the same keys with a value of    *)
(* another type or a blank string.                                         *)

Members == {"T", "S", "G", "T0", "S0", "G0"}

RECURSIVE strip(_)
\* str.strip()
strip(text) ==
    IF text = <<>> THEN <<>>
    ELSE IF Head(text) = " " THEN strip(Tail(text))
    ELSE IF text[Len(text)] = " " THEN strip(SubSeq(text, 1, Len(text) - 1))
    ELSE text

\* json.loads(text) returns a dict
IsObjectText(text) ==
    /\ Len(text) >= 2
    /\ text[1] = "{" /\ text[Len(text)] = "}"
    /\ \A i \in 2..Len(text) - 1 : text[i] \in Members

\* json.loads(text) returns a list (of at most one object)
IsArrayText(text) ==
    /\ Len(text) >= 2
    /\ text[1] = "[" /\ text[Len(text)] = "]"
    /\ Len(text) > 2 => IsObjectText(SubSeq(text, 2, Len(text) - 1))

\* the keys of the dict json.loads returns
members_of(text) == {text[i] : i \in 2..Len(text) - 1}

\* re.search(r"\{.*\}", content, flags=re.DOTALL): <<>> or <<the match>>
search_braces(text) ==
    LET opens  == {i \in 1..Len(text) : text[i] = "{"}
        closes == {i \in 1..Len(text) : text[i] = "}"}
    IN  IF opens = {} THEN <<>>
        ELSE LET first == CHOOSE i \in opens : \A j \in opens : i <= j
                 after == {i \in closes : i > first}
             IN  IF after = {} THEN <<>>
                 ELSE <<SubSeq(text, first, CHOOSE i \in after : \A j \in after : j <= i)>>

\* _extract_openai_json: <<>> for None, <<keys>> for a dict
extract_openai_json(content) ==
    LET text == strip(content)
        m    == search_braces(text)
    IN  IF text = <<>> THEN <<>>
        ELSE IF IsObjectText(text) THEN <<members_of(text)>>
        ELSE IF IsArrayText(text) THEN <<>>
        ELSE IF m = <<>> THEN <<>>
        ELSE IF IsObjectText(m[1]) THEN <<members_of(m[1])>>
        ELSE <<>>

\* what _summarize_pr_with_openai hands back: fault is the exception raised
NoSummary == [fault |-> "none", title |-> <<>>, summary |-> <<>>, tags |-> <<>>]

\* the answers of the chat-completions endpoint
Responses ==
    { [fault |-> f, choices |-> "list", is_str |-> TRUE, content |-> <<>>] :
          f \in {"transport", "http", "not_object"} }
    \cup
    { [fault |-> "none", choices |-> c, is_str |-> TRUE, content |-> <<>>] :
          c \in {"missing", "empty"} }
    \cup
    { [fault |-> "none", choices |-> "list", is_str |-> FALSE, content |-> <<>>] }
    \cup
    { [fault |-> "none", choices |-> "list", is_str |-> TRUE, content |-> c] :
          c \in { <<" ">>,
                  <<"w", "{", "w">>,
                  <<"[", "{", "T", "S", "}", "]">>,
                  <<"{", "}">>,
                  <<"{", "T0", "S0", "G0", "}">>,
                  <<"w", "{", "S", "}", " ">>,
                  <<"{", "T", "S", "G", "}">> } }

\* the answer that stands in a position where the endpoint is not called
NoAnswer == [fault |-> "none", choices |-> "not called", is_str |-> TRUE, content |-> <<>>]

RECURSIVE AnswersFor(_, _)
\* the answers the endpoint can give, one for each position of the search
\* results; it is called only for an item that fails no check of its own
AnswersFor(enabled, raw) ==
    IF raw = <<>> THEN {<<>>}
    ELSE {<<a>> \o rest :
             a \in (IF enabled /\ Head(raw).skip = "none" THEN Responses ELSE {NoAnswer}),
             rest \in AnswersFor(enabled, Tail(raw))}

\* _openai_chat_completions and _summarize_pr_with_openai
summarize_pr_with_openai(resp) ==
    IF resp.fault # "none" THEN [NoSummary EXCEPT !.fault = resp.fault]
    ELSE IF resp.choices # "list" THEN NoSummary
    ELSE IF ~resp.is_str THEN NoSummary
    ELSE LET parsed == extract_openai_json(resp.content)
         IN  IF parsed = <<>> THEN NoSummary
             ELSE IF parsed[1] = {} THEN NoSummary
             ELSE [ fault   |-> "none",
                    title   |-> IF "T" \in parsed[1] THEN <<"Pretty title">> ELSE <<>>,
                    summary |-> IF "S" \in parsed[1] THEN <<"Summary">> ELSE <<>>,
                    tags    |-> IF "G" \in parsed[1] THEN <<"fix", "github">> ELSE <<>> ]

\* some part of the text is a JSON object
HasObjectText(text) ==
    \E i, j \in 1..Len(text) : i < j /\ IsObjectText(SubSeq(text, i, j))

\* history: what the call for an item came to
call_of(enabled, resp) ==
    IF ~enabled THEN "not called"
    ELSE IF resp.fault # "none" THEN "raised"
    ELSE IF resp.choices # "list" \/ ~resp.is_str THEN "no content"
    ELSE IF HasObjectText(resp.content) THEN "object"
    ELSE "no object"

\* fault: only the HTTP error of the endpoint is caught
catches_http(fault) == fault = "http"

\* except Exception as e:
catches(fault) == fault \in {"transport", "http", "not_object"}

\* if openai_api_key: try: ... except Exception
enrich(enabled, resp) ==
    LET ai == summarize_pr_with_openai(resp)
    IN  IF ~enabled THEN NoSummary
        ELSE IF ai.fault = "none" THEN ai
        ELSE IF catches(ai.fault) THEN NoSummary
        ELSE ai

\* fault: the fallback title is the PR's title alone
pr_title_bare(it) == <<it.title>>

\* f"{repo}#{number}: {title}"
pr_title(it) == <<it.repo, "#", it.number, ": ", it.title>>

\* the item of a pull request, kind is the stream it came from
pr_item(it, ai) ==
    LET base == [ url   |-> it.url, kind |-> "pr",
                  title |-> IF ai.title # <<>> THEN ai.title ELSE pr_title(it),
                  tags  |-> IF ai.tags # <<>>
                            THEN FirstOccurrences(<<"github", "pr", it.repo>> \o ai.tags)
                            ELSE <<"github", "pr", it.repo>> ]
    IN  IF ai.summary # <<>> THEN base @@ [summary |-> ai.summary] ELSE base

\* the item of a commit
commit_item(it) ==
    [ url   |-> it.url, kind |-> "commit",
      title |-> <<it.repo, "@", it.sha, ": ", it.subject>>,
      tags  |-> <<"github", "commit", it.repo>> ]

----------------------------------------------------------------------------
(* The loops of main *)

\* fault: the cursor follows the item accepted last, not the newest one
advance_to_last(max_seen, timestamp) == timestamp

\* if merged_at > max_seen_pr_sync: max_seen_pr_sync = merged_at (and for commits)
advance(max_seen, timestamp) == IF timestamp > max_seen THEN timestamp ELSE max_seen

\* fault: the loop is left one item late
ceiling_passed(added, max_new) == added > max_new

\* if new_prs_added >= args.max_new: break (and the same for commits)
ceiling_reached(added, max_new) == added >= max_new

RECURSIVE pr_loop(_, _, _, _, _)
\* for it in raw_prs: ... ; acc.fetches counts the _github_get_pr calls, acc.env is
\* the run's configuration with the answer the text generation gives for each
\* position of raw_prs, acc.raised tells that an exception left the loop
\* each entry of new_items carries, as history, what its call came to
pr_loop(raw, existing, max_new, last_sync, acc) ==
    IF raw = <<>> THEN acc
    ELSE
    LET it   == Head(raw)
        rest == Tail(raw)
        at   == Len(acc.env.answers) - Len(raw) + 1
    IN  IF it.url \in existing THEN pr_loop(rest, existing, max_new, last_sync, acc)
        ELSE IF it.skip = "repo_excluded" THEN pr_loop(rest, existing, max_new, last_sync, acc)
        ELSE IF ceiling_reached(acc.added, max_new) THEN acc
        ELSE
        LET got       == [acc EXCEPT !.fetches = @ + 1]
            merged_at == parse_iso_datetime(it.merged_at)
            ai        == enrich(acc.env.openai, acc.env.answers[at])
            why       == author_skip(acc.env.author_filter, acc.env.allowed, it.author)
        IN  IF it.skip = "not_merged" THEN pr_loop(rest, existing, max_new, last_sync, got)
            ELSE IF merged_at <= last_sync
                 THEN pr_loop(rest, existing, max_new, last_sync,
                              [got EXCEPT !.dropped = @ \cup {[url |-> it.url, kind |-> "pr",
                                                  ts |-> merged_at, why |-> "cursor"]}])
            ELSE IF why # "none"
                 THEN pr_loop(rest, existing, max_new, last_sync,
                              [got EXCEPT !.dropped = @ \cup {[url |-> it.url, kind |-> "pr",
                                                  ts |-> merged_at, why |-> why]}])
            ELSE IF it.skip = "no_title"
                 THEN pr_loop(rest, existing, max_new, last_sync, got)
            ELSE IF ai.fault # "none" THEN [got EXCEPT !.raised = TRUE]
            ELSE pr_loop(rest, existing, max_new, last_sync,
                    [got EXCEPT
                       !.new_items = Append(@, [ts |-> merged_at, day |-> DateOf(merged_at),
                                                item |-> pr_item(it, ai),
                                                call |-> call_of(acc.env.openai,
                                                                 acc.env.answers[at])]),
                       !.added = @ + 1,
                       !.max_seen = advance(@, merged_at)])

RECURSIVE commit_loop(_, _, _, _, _)
\* for it in raw_commits: ...
commit_loop(raw, existing, max_new, last_sync, acc) ==
    IF raw = <<>> THEN acc
    ELSE
    LET it   == Head(raw)
        rest == Tail(raw)
        committed_at == parse_iso_datetime(it.date)
        why  == author_skip(acc.env.author_filter, acc.env.allowed, it.author)
    IN  IF ceiling_reached(acc.added, max_new) THEN acc
        ELSE IF it.url \in existing THEN commit_loop(rest, existing, max_new, last_sync, acc)
        ELSE IF it.skip = "repo_excluded" THEN commit_loop(rest, existing, max_new, last_sync, acc)
        ELSE IF committed_at <= last_sync
             THEN commit_loop(rest, existing, max_new, last_sync,
                              [acc EXCEPT !.dropped = @ \cup {[url |-> it.url, kind |-> "commit",
                                                  ts |-> committed_at, why |-> "cursor"]}])
        ELSE IF it.skip = "merge_commit"
             THEN commit_loop(rest, existing, max_new, last_sync, acc)
        ELSE IF why # "none"
             THEN commit_loop(rest, existing, max_new, last_sync,
                              [acc EXCEPT !.dropped = @ \cup {[url |-> it.url, kind |-> "commit",
                                                  ts |-> committed_at, why |-> why]}])
        ELSE IF it.skip = "no_subject"
             THEN commit_loop(rest, existing, max_new, last_sync, acc)
        ELSE commit_loop(rest, existing, max_new, last_sync,
                [acc EXCEPT
                   !.new_items = Append(@, [ts |-> committed_at, day |-> DateOf(committed_at),
                                            item |-> commit_item(it), call |-> "not called"]),
                   !.added = @ + 1,
                   !.max_seen = advance(@, committed_at)])

\* fault: the inner loop does not record the URLs it inserts
inserts_of_unrecorded(items_with_ts, existing) ==
    LET kept == SelectSeq(items_with_ts, LAMBDA x : x.item.url \notin existing)
    IN  [i \in 1..Len(kept) |-> kept[i].item]

RECURSIVE inserts_of(_, _)
\* the inner loop of the merge: the items of one day whose URL is not yet known
inserts_of(items_with_ts, existing) ==
    IF items_with_ts = <<>> THEN <<>>
    ELSE LET item == Head(items_with_ts).item
         IN  IF item.url \in existing THEN inserts_of(Tail(items_with_ts), existing)
             ELSE <<item>> \o inserts_of(Tail(items_with_ts), existing \cup {item.url})

\* fault: the new items are put after the items the day already has
merge_day_appending(day, items_with_ts, acc) ==
    LET inserts == inserts_of(items_with_ts, acc.existing_urls)
        urls    == [i \in 1..Len(inserts) |-> inserts[i].url]
        old     == Get(acc.daily_by_day, day)
        existing_filtered == SelectSeq(old, LAMBDA it : it.url \notin Range(urls))
    IN  IF inserts = <<>> THEN acc
        ELSE [ daily_by_day  |-> (day :> (existing_filtered \o inserts)) @@ acc.daily_by_day,
               existing_urls |-> acc.existing_urls \cup Range(urls),
               added_urls    |-> acc.added_urls \o urls,
               touched_days  |-> acc.touched_days \cup {day} ]

\* one iteration of: for day, items_with_ts in new_by_day.items()
merge_day(day, items_with_ts, acc) ==
    LET inserts == inserts_of(items_with_ts, acc.existing_urls)
        urls    == [i \in 1..Len(inserts) |-> inserts[i].url]
        old     == Get(acc.daily_by_day, day)
        existing_filtered == SelectSeq(old, LAMBDA it : it.url \notin Range(urls))
    IN  IF inserts = <<>> THEN acc
        ELSE [ daily_by_day  |-> (day :> (inserts \o existing_filtered)) @@ acc.daily_by_day,
               existing_urls |-> acc.existing_urls \cup Range(urls),
               added_urls    |-> acc.added_urls \o urls,
               touched_days  |-> acc.touched_days \cup {day} ]

RECURSIVE merge_days(_, _, _)
merge_days(day_order, sorted, acc) ==
    IF day_order = <<>> THEN acc
    ELSE merge_days(Tail(day_order), sorted,
            merge_day(Head(day_order),
                      SelectSeq(sorted, LAMBDA x : x.day = Head(day_order)), acc))

\* if new_items: ... (the merge step)
merge(items, by_day, existing) ==
    LET sorted    == SortByTsDesc(items)
        day_order == FirstOccurrences([i \in 1..Len(sorted) |-> sorted[i].day])
    IN  merge_days(day_order, sorted,
            [ daily_by_day |-> by_day, existing_urls |-> existing,
              added_urls |-> <<>>, touched_days |-> {} ])

----------------------------------------------------------------------------
(* Pieces of main that the actions below share *)

\* fault: the search starts at the cursor's own date
since_date_of_cursor(last_sync) == DateOf(last_sync)

\* (last_sync - dt.timedelta(days=1)).date()
since_date(last_sync) == DateOf(last_sync - DayLen)

\* fault: the running maximum starts at the epoch, not at the loaded cursor
max_seen_init_epoch(last_sync) == 0

\* max_seen_pr_sync = last_pr_sync ; max_seen_commit_sync = last_commit_sync
max_seen_init(last_sync) == last_sync

\* fault: --dry-run is not consulted
may_write_always(a) == TRUE

\* if not args.dry_run: (the guard of the legacy migration's writes)
may_write(a) == ~a.dry_run

RECURSIVE SortedAsc(_)
SortedAsc(S) ==
    IF S = {} THEN <<>>
    ELSE LET m == CHOOSE x \in S : \A y \in S : x <= y
         IN  <<m>> \o SortedAsc(S \ {m})

\* fault: reverse=True is forgotten
day_files_sorted_ascending(files) == SortedAsc(DOMAIN files)

\* fault: the state file is saved before the index is written
after_step_state_first(step) ==
    CASE step = "persist_days"  -> "persist_state"
      [] step = "persist_state" -> "persist_index"
      [] step = "persist_index" -> "done"

\* fault: the days of the loaded index are added to the days that have a file
day_files_and_indexed(files) == SortedDesc(DOMAIN files \cup Range(days))

\* {p.stem for p in daily_dir.glob("*.json") if _is_day(p.stem)}, sorted descending
day_files_sorted(files) == SortedDesc(DOMAIN files)

\* the order of the three persisting blocks at the end of main
after_step(step) ==
    CASE step = "persist_days"  -> "persist_index"
      [] step = "persist_index" -> "persist_state"
      [] step = "persist_state" -> "done"

\* the first persisting block that has something to do
first_step(todo) == IF todo = <<>> THEN after_step("persist_days") ELSE "persist_days"

\* the legacy items of one day, in file order, without their date field
legacy_items_of(doc, day) ==
    LET on_day == SelectSeq(doc.items, LAMBDA it : it.date = day)
    IN  [i \in 1..Len(on_day) |-> on_day[i].item]

legacy_days(doc) == {doc.items[i].date : i \in 1..Len(doc.items)}

----------------------------------------------------------------------------
(* The state machine *)

\* the locals of the scheduled process
Locals ==
    [
      pc |-> pc, args |-> args, run_at |-> run_at, days |-> days,
      daily_by_day |-> daily_by_day, existing_urls |-> existing_urls,
      last_pr_sync |-> last_pr_sync, last_commit_sync |-> last_commit_sync,
      pr_since_date |-> pr_since_date, commit_since_date |->
      commit_since_date, raw_prs |-> raw_prs, raw_commits |-> raw_commits,
      new_items |-> new_items, max_seen_pr_sync |-> max_seen_pr_sync,
      max_seen_commit_sync |-> max_seen_commit_sync, new_prs_added |->
      new_prs_added, new_commits_added |-> new_commits_added, touched_days
      |-> touched_days, added_urls |-> added_urls, pending |-> pending,
      eligible_prs |-> eligible_prs, eligible_commits |-> eligible_commits,
      returned |-> returned, plain |-> plain, dropped |-> dropped,
      allowed_logins |-> allowed_logins, allow_fetch |-> allow_fetch,
      raised_by |-> raised_by, pre |-> pre, writes |-> writes ]

\* the locals of a process that has not entered main
NotRunning ==
    [
      pc |-> "idle", args |-> NoArgs, run_at |-> 0, days |-> <<>>,
      daily_by_day |-> EmptyMap, existing_urls |-> {}, last_pr_sync |-> 0,
      last_commit_sync |-> 0, pr_since_date |-> 0, commit_since_date |-> 0,
      raw_prs |-> <<>>, raw_commits |-> <<>>, new_items |-> <<>>,
      max_seen_pr_sync |-> 0, max_seen_commit_sync |-> 0, new_prs_added |->
      0, new_commits_added |-> 0, touched_days |-> {}, added_urls |-> <<>>,
      pending |-> <<>>, eligible_prs |-> {}, eligible_commits |-> {},
      returned |-> 0, plain |-> NoPlain, dropped |-> {}, allowed_logins |->
      {}, allow_fetch |-> NotFetched, raised_by |-> "none", pre |-> NoPre,
      writes |-> <<>> ]

Locals0 ==
    /\ args = NoArgs /\ run_at = 0
    /\ days = <<>> /\ daily_by_day = EmptyMap /\ existing_urls = {}
    /\ last_pr_sync = 0 /\ last_commit_sync = 0
    /\ pr_since_date = 0 /\ commit_since_date = 0
    /\ raw_prs = <<>> /\ raw_commits = <<>>
    /\ new_items = <<>> /\ max_seen_pr_sync = 0 /\ max_seen_commit_sync = 0
    /\ new_prs_added = 0 /\ new_commits_added = 0
    /\ touched_days = {} /\ added_urls = <<>> /\ pending = <<>>
    /\ eligible_prs = {} /\ eligible_commits = {} /\ returned = 0
    /\ plain = NoPlain /\ dropped = {} /\ raised_by = "none"
    /\ allowed_logins = {} /\ allow_fetch = NotFetched
    /\ pre = NoPre /\ writes = <<>>
    /\ other = NotRunning

\* no generator is part of the behaviour
NoGenerator ==
    /\ gen_name = "none" /\ gen_pc = "idle"
    /\ gen_files = [p \in {} |-> NoFile]
    /\ gen_payload = <<>> /\ gen_exit = <<>> /\ gen_pre = NoFile /\ gen_failed = FALSE
    /\ gen_rows = <<>>

\* no search poll is modelled on its own
NoSearch ==
    /\ search_pc = "idle" /\ search_kind = "none"
    /\ upstream = <<>> /\ max_items = 0
    /\ search_items = <<>> /\ search_page = 0 /\ requested = <<>>

\* every run draws its search results anew and no kill is recorded
NoResume == results = <<>> /\ killed = <<>>

Init ==
    /\ stateFile = NoFile
    /\ indexFile = NoFile
    /\ dayFiles = EmptyMap
    /\ legacyFile \in {NoFile} \cup {File(d) : d \in LegacyDocs}
    /\ now = FirstRunAt
    /\ pc = "idle"
    /\ Locals0
    /\ NoGenerator
    /\ NoSearch
    /\ NoResume

\* the frame of main is left: its locals are gone
DropLocals ==
    /\ run_at' = 0
    /\ days' = <<>> /\ daily_by_day' = EmptyMap /\ existing_urls' = {}
    /\ last_pr_sync' = 0 /\ last_commit_sync' = 0
    /\ pr_since_date' = 0 /\ commit_since_date' = 0
    /\ raw_prs' = <<>> /\ raw_commits' = <<>>
    /\ new_items' = <<>> /\ max_seen_pr_sync' = 0 /\ max_seen_commit_sync' = 0
    /\ new_prs_added' = 0 /\ new_commits_added' = 0
    /\ touched_days' = {} /\ added_urls' = <<>> /\ pending' = <<>>
    /\ eligible_prs' = {} /\ eligible_commits' = {} /\ returned' = 0
    /\ plain' = NoPlain /\ dropped' = {}

\* the process ends
ResetLocals ==
    /\ DropLocals
    /\ args' = NoArgs /\ pre' = NoPre /\ writes' = <<>>
    /\ raised_by' = "none"
    /\ allowed_logins' = {} /\ allow_fetch' = NotFetched

\* main is entered: the command line is parsed, run_at is taken and the allowed
\* logins are fetched; the command line is one of A, the two requests end as
\* one of F and the run is one of the first `runs`
Start(A, F, runs) ==
    /\ pc = "idle"
    /\ now < FirstRunAt + runs
    /\ \E a \in A, f \in F :
          /\ args' = a
          /\ allowed_logins' = IF a.author_filter = "org"
                                THEN github_get_allowed_logins(f) ELSE {}
          /\ allow_fetch' = IF a.author_filter = "org" THEN f ELSE NotFetched
    /\ run_at' = now
    /\ now' = now + 1
    /\ pre' = [stateFile |-> stateFile, indexFile |-> indexFile,
               dayFiles |-> dayFiles, legacyFile |-> legacyFile]
    /\ pc' = "load_index"
    /\ UNCHANGED <<gen, search, resume, other, raised_by, disk, loaded, cursors, polled, accepted, merged, eligible, writes>>

StartRun == Start(Args, {FetchedBoth}, MaxRuns)

\* the index is read, or the legacy file migrated; then every day file is loaded
LoadIndex ==
    /\ pc = "load_index"
    /\ Exists(indexFile) => ~index_raises(Doc(indexFile))
    /\ LET migrate     == ~Exists(indexFile) /\ Exists(legacyFile)
           by_day_keys == IF migrate THEN legacy_days(Doc(legacyFile)) ELSE {}
           written     == IF migrate /\ may_write(args) THEN by_day_keys ELSE {}
           files       == [d \in DOMAIN dayFiles \cup written |->
                              IF d \in written
                              THEN day_doc(d, legacy_items_of(Doc(legacyFile), d))
                              ELSE dayFiles[d]]
           index_days  == IF Exists(indexFile) THEN Doc(indexFile).days
                          ELSE SortedDesc(by_day_keys)
           coerced     == SortedDesc(Range(index_days))
           all_days    == SortedDesc(Range(coerced) \cup DOMAIN files)
           by_day      == [d \in Range(all_days) |->
                              IF d \in DOMAIN files THEN load_day(files[d]) ELSE <<>>]
       IN  /\ dayFiles' = files
           /\ legacyFile' = IF migrate /\ may_write(args) THEN NoFile ELSE legacyFile
           /\ writes' = writes \o [i \in 1..Cardinality(written) |-> "day"]
           /\ days' = all_days
           /\ daily_by_day' = by_day
           /\ existing_urls' = UNION {UrlsOf(by_day[d]) : d \in Range(all_days)}
    /\ pc' = "load_state"
    /\ UNCHANGED <<gen, search, resume, other, authors, raised_by, stateFile, indexFile, now, args, run_at, cursors, polled,
                   accepted, merged, eligible, pre>>

\* _read_json or _coerce_daily_updates_index raises on the index file
LoadIndexRaise ==
    /\ pc = "load_index"
    /\ Exists(indexFile) /\ index_raises(Doc(indexFile))
    /\ pc' = "aborted"
    /\ raised_by' = "index"
    /\ DropLocals
    /\ UNCHANGED <<gen, search, resume, other, authors, disk, now, args, pre, writes>>

\* _load_state raises on the state file
LoadStateRaise ==
    /\ pc = "load_state"
    /\ Exists(stateFile) /\ state_raises(Doc(stateFile))
    /\ pc' = "aborted"
    /\ raised_by' = "state"
    /\ DropLocals
    /\ UNCHANGED <<gen, search, resume, other, authors, disk, now, args, pre, writes>>

\* _load_state and the two since dates
LoadState ==
    /\ pc = "load_state"
    /\ Exists(stateFile) => ~state_raises(Doc(stateFile))
    /\ LET c == load_state(stateFile, now)
       IN  /\ last_pr_sync' = c[1]
           /\ last_commit_sync' = c[2]
           /\ pr_since_date' = since_date(c[1])
           /\ commit_since_date' = since_date(c[2])
    /\ pc' = "poll_prs"
    /\ UNCHANGED <<gen, search, resume, other, authors, raised_by, disk, now, args, run_at, loaded, polled, accepted, merged, eligible, pre, writes>>

\* _search_merged_prs returns
PollPRs ==
    /\ pc = "poll_prs"
    /\ raw_prs' \in (IF results = <<>> THEN SeqsUpTo(PrUniverse, MaxRaw) ELSE {results[1].prs})
    /\ returned' = Len(raw_prs')
    /\ pc' = "poll_commits"
    /\ UNCHANGED <<gen, search, resume, other, authors, raised_by, disk, now, args, run_at, loaded, cursors, raw_commits, accepted,
                   merged, eligible_prs, eligible_commits, plain, dropped, pre, writes>>

\* _search_commits returns
PollCommits ==
    /\ pc = "poll_commits"
    /\ raw_commits' \in (IF results = <<>> THEN SeqsUpTo(CommitUniverse, MaxRaw)
                        ELSE {results[1].commits})
    /\ returned' = returned + Len(raw_commits')
    /\ pc' = "filter_prs"
    /\ UNCHANGED <<gen, search, resume, other, authors, raised_by, disk, now, args, run_at, loaded, cursors, raw_prs, accepted,
                   merged, eligible_prs, eligible_commits, plain, dropped, pre, writes>>

\* a search request raises: the exception leaves main
PollRaise ==
    /\ pc \in {"poll_prs", "poll_commits"}
    /\ pc' = "aborted"
    /\ raised_by' = "github"
    /\ DropLocals
    /\ UNCHANGED <<gen, search, resume, other, authors, disk, now, args, pre, writes>>

\* the returned items that fail no check and are newer than the loaded cursor
eligible_of(raw, field, last_sync) ==
    { [url |-> c.url, ts |-> parse_iso_datetime(c[field])] :
        c \in {x \in Range(raw) :
                 /\ x.skip = "none"
                 /\ author_skip(args.author_filter, allowed_logins, x.author) = "none"
                 /\ parse_iso_datetime(x[field]) > last_sync} }

\* an accepted item without what the text generation can change
Skeleton(x) == [ts |-> x.ts, day |-> x.day, url |-> x.item.url, kind |-> x.item.kind]

SkeletonOf(items) == [i \in 1..Len(items) |-> Skeleton(items[i])]

\* the loop over raw_prs, with and without an API key
pr_result_with(enabled, answers) ==
    LET r == pr_loop(raw_prs, existing_urls, args.max_new, last_pr_sync,
                     [new_items |-> <<>>, added |-> 0, fetches |-> 0, raised |-> FALSE,
                      dropped |-> {},
                      env |-> [openai |-> enabled, answers |-> answers,
                               author_filter |-> args.author_filter,
                               allowed |-> allowed_logins],
                      max_seen |-> max_seen_init(last_pr_sync)])
    IN  [new_items |-> r.new_items, added |-> r.added, fetches |-> r.fetches,
         raised |-> r.raised, dropped |-> r.dropped, max_seen |-> r.max_seen]

\* the loop as it runs without an API key
pr_result == pr_result_with(FALSE, [i \in 1..Len(raw_prs) |-> NoAnswer])

\* the loop over raw_prs runs to its end, or an exception leaves it; raw_prs is
\* not read again
FilterPRs ==
    /\ pc = "filter_prs"
    /\ \E r \in {pr_result_with(args.openai, a) : a \in AnswersFor(args.openai, raw_prs)} :
              IF r.raised
              THEN /\ pc' = "aborted"
                   /\ raised_by' = "openai"
                   /\ DropLocals
                   /\ UNCHANGED <<disk, now, args, pre, writes>>
              ELSE /\ new_items' = r.new_items
                   /\ new_prs_added' = r.added
                   /\ max_seen_pr_sync' = r.max_seen
                   /\ raw_prs' = <<>>
                   /\ eligible_prs' = eligible_of(raw_prs, "merged_at", last_pr_sync)
                   /\ plain' = [new_items |-> SkeletonOf(pr_result.new_items),
                                added |-> pr_result.added, max_seen |-> pr_result.max_seen]
                   /\ dropped' = r.dropped
                   /\ pc' = "filter_commits"
                   /\ UNCHANGED <<raised_by, disk, now, args, run_at, loaded, cursors,
                                  raw_commits, max_seen_commit_sync, new_commits_added,
                                  merged, eligible_commits, returned, pre, writes>>
    /\ UNCHANGED <<gen, search, resume, other, authors>>

\* a _github_get_pr or _github_get_pr_files_digest request of the loop raises
FilterPRsRaise ==
    /\ pc = "filter_prs"
    /\ pr_result.fetches > 0
    /\ pc' = "aborted"
    /\ raised_by' = "github"
    /\ DropLocals
    /\ UNCHANGED <<gen, search, resume, other, authors, disk, now, args, pre, writes>>

commit_result ==
    commit_loop(raw_commits, existing_urls, args.max_new_commits, last_commit_sync,
                [new_items |-> new_items, added |-> 0, fetches |-> 0, raised |-> FALSE,
                 dropped |-> dropped,
                 env |-> [author_filter |-> args.author_filter, allowed |-> allowed_logins],
                 max_seen |-> max_seen_init(last_commit_sync)])

\* the loop over raw_commits; raw_commits is not read again
FilterCommits ==
    /\ pc = "filter_commits"
    /\ new_items' = commit_result.new_items
    /\ new_commits_added' = commit_result.added
    /\ max_seen_commit_sync' = commit_result.max_seen
    /\ raw_commits' = <<>>
    /\ eligible_commits' = eligible_of(raw_commits, "date", last_commit_sync)
    /\ dropped' = commit_result.dropped
    /\ pc' = "merge"
    /\ UNCHANGED <<gen, search, resume, other, authors, raised_by, disk, now, args, run_at, loaded, cursors, raw_prs,
                   max_seen_pr_sync, new_prs_added, merged, eligible_prs, returned,
                   plain, pre, writes>>

\* the new items are merged into daily_by_day
Merge ==
    /\ pc = "merge"
    /\ LET m == merge(new_items, daily_by_day, existing_urls)
       IN  /\ daily_by_day' = m.daily_by_day
           /\ existing_urls' = m.existing_urls
           /\ added_urls' = m.added_urls
           /\ touched_days' = m.touched_days
           /\ pending' = SortedDesc(m.touched_days)
    /\ pc' = "dry_run_check"
    /\ UNCHANGED <<gen, search, resume, other, authors, raised_by, disk, now, args, run_at, days, cursors, polled, accepted, eligible, pre, writes>>

\* if args.dry_run: ... return 0
DryRunCheck ==
    /\ pc = "dry_run_check"
    /\ pc' = IF args.dry_run THEN "done" ELSE first_step(pending)
    /\ UNCHANGED <<gen, search, resume, other, authors, raised_by, disk, now, args, run_at, loaded, cursors, polled, accepted,
                   merged, eligible, pre, writes>>

\* fault: the file is read again and what another process put there is kept
WriteDayFile_rereading ==
    /\ pc = "persist_days"
    /\ pending # <<>>
    /\ LET day    == Head(pending)
           mine   == Get(daily_by_day, day)
           theirs == IF day \in DOMAIN dayFiles THEN load_day(dayFiles[day]) ELSE <<>>
           kept   == SelectSeq(theirs, LAMBDA x : x.url \notin UrlsOf(mine))
       IN  dayFiles' = (day :> day_doc(day, mine \o kept)) @@ dayFiles
    /\ pending' = Tail(pending)
    /\ writes' = Append(writes, "day")
    /\ pc' = IF Tail(pending) = <<>> THEN after_step("persist_days") ELSE pc
    /\ UNCHANGED <<gen, search, resume, other, authors, raised_by, stateFile, indexFile, legacyFile, now, args, run_at, loaded,
                   cursors, polled, accepted, touched_days, added_urls, eligible, pre>>

\* one iteration of: for day in sorted(touched_days, reverse=True): _write_json(...)
WriteDayFile ==
    /\ pc = "persist_days"
    /\ pending # <<>>
    /\ LET day == Head(pending)
       IN  dayFiles' = (day :> day_doc(day, Get(daily_by_day, day))) @@ dayFiles
    /\ pending' = Tail(pending)
    /\ writes' = Append(writes, "day")
    /\ pc' = IF Tail(pending) = <<>> THEN after_step("persist_days") ELSE pc
    /\ UNCHANGED <<gen, search, resume, other, authors, raised_by, stateFile, indexFile, legacyFile, now, args, run_at, loaded,
                   cursors, polled, accepted, touched_days, added_urls, eligible, pre>>

\* the index is written from the day files now on disk
WriteIndex ==
    /\ pc = "persist_index"
    /\ indexFile' = File(index_doc(day_files_sorted(dayFiles)))
    /\ writes' = Append(writes, "index")
    /\ pc' = after_step("persist_index")
    /\ UNCHANGED <<gen, search, resume, other, authors, raised_by, stateFile, dayFiles, legacyFile, now, args, run_at, loaded,
                   cursors, polled, accepted, merged, eligible, pre>>

\* _save_state, in the branch without new items or in the branch with them
SaveState ==
    /\ pc = "persist_state"
    /\ stateFile' =
          IF new_items = <<>>
          THEN File(state_doc(last_pr_sync, last_commit_sync, run_at, <<>>))
          ELSE File(state_doc(max_seen_pr_sync, max_seen_commit_sync, run_at, added_urls))
    /\ writes' = Append(writes, "state")
    /\ pc' = after_step("persist_state")
    /\ UNCHANGED <<gen, search, resume, other, authors, raised_by, indexFile, dayFiles, legacyFile, now, args, run_at, loaded,
                   cursors, polled, accepted, merged, eligible, pre>>

\* main returns, or the exception ends the process
Exit ==
    /\ pc \in {"done", "aborted"}
    /\ pc' = "idle"
    /\ ResetLocals
    /\ UNCHANGED <<gen, search, resume, other, disk, now>>

\* the process is terminated in the middle of a run
Kill ==
    /\ pc \notin {"idle", "done", "aborted"}
    /\ pc' = "idle"
    /\ ResetLocals
    /\ UNCHANGED <<gen, search, resume, other, disk, now>>

Next ==
    \/ StartRun
    \/ LoadIndex
    \/ LoadState
    \/ PollPRs
    \/ PollCommits
    \/ PollRaise
    \/ FilterPRs
    \/ FilterPRsRaise
    \/ FilterCommits
    \/ Merge
    \/ DryRunCheck
    \/ WriteDayFile
    \/ WriteIndex
    \/ SaveState
    \/ Exit
    \/ Kill

Spec == Init /\ [][Next]_vars

----------------------------------------------------------------------------
(* One run with or without an API key for the text generation *)

StartEnriching == Start(ArgsEnrich, {FetchedBoth}, 1)

NextEnrich ==
    \/ StartEnriching
    \/ LoadIndex
    \/ LoadState
    \/ PollPRs
    \/ PollCommits
    \/ PollRaise
    \/ FilterPRs
    \/ FilterPRsRaise
    \/ FilterCommits
    \/ Merge
    \/ DryRunCheck
    \/ WriteDayFile
    \/ WriteIndex
    \/ SaveState
    \/ Exit
    \/ Kill

SpecEnrich == Init /\ [][NextEnrich]_vars

----------------------------------------------------------------------------
(* One run with each value of --author-filter and each outcome of the two  *)
(* requests for the allowed logins                                         *)

StartAuthors == Start(ArgsAuthors, FetchOutcomes, 1)

NextAuthors ==
    \/ StartAuthors
    \/ LoadIndex
    \/ LoadState
    \/ PollPRs
    \/ PollCommits
    \/ PollRaise
    \/ FilterPRs
    \/ FilterPRsRaise
    \/ FilterCommits
    \/ Merge
    \/ DryRunCheck
    \/ WriteDayFile
    \/ WriteIndex
    \/ SaveState
    \/ Exit
    \/ Kill

SpecAuthors == Init /\ [][NextAuthors]_vars

----------------------------------------------------------------------------
(* _write_json step by step: open(path, "w") empties the file, json.dump   *)
(* writes the text in pieces, and the write actions above complete it.     *)

\* the file the persisting block at pc writes next, with content doc
write_target(doc) ==
    CASE pc = "persist_days"  ->
            /\ dayFiles' = (Head(pending) :> doc) @@ dayFiles
            /\ UNCHANGED <<indexFile, stateFile>>
      [] pc = "persist_index" ->
            /\ indexFile' = File(doc)
            /\ UNCHANGED <<dayFiles, stateFile>>
      [] pc = "persist_state" ->
            /\ stateFile' = File(doc)
            /\ UNCHANGED <<dayFiles, indexFile>>

\* the content of that file now, <<>> when there is none
target_now ==
    CASE pc = "persist_days"  ->
            IF Head(pending) \in DOMAIN dayFiles THEN File(dayFiles[Head(pending)]) ELSE NoFile
      [] pc = "persist_index" -> indexFile
      [] pc = "persist_state" -> stateFile

\* open(path, "w", encoding="utf-8")
OpenForWrite ==
    /\ pc \in {"persist_days", "persist_index", "persist_state"}
    /\ target_now # File(Damaged("empty"))
    /\ write_target(Damaged("empty"))
    /\ UNCHANGED <<gen, search, resume, other, authors, raised_by, legacyFile, now, pc, args, run_at, loaded, cursors, polled,
                   accepted, merged, eligible, pre, writes>>

\* json.dump has written a part of the text
WriteChunk ==
    /\ pc \in {"persist_days", "persist_index", "persist_state"}
    /\ target_now = File(Damaged("empty"))
    /\ write_target(Damaged("partial"))
    /\ UNCHANGED <<gen, search, resume, other, authors, raised_by, legacyFile, now, pc, args, run_at, loaded, cursors, polled,
                   accepted, merged, eligible, pre, writes>>

NextTorn ==
    \/ Next
    \/ LoadIndexRaise
    \/ LoadStateRaise
    \/ OpenForWrite
    \/ WriteChunk

SpecTorn == Init /\ [][NextTorn]_vars

----------------------------------------------------------------------------
(* Runs that find files on disk which were cut short by a kill or changed  *)
(* by hand: an index or a day-bucket file that json.load rejects, that is  *)
(* no JSON object, or that lacks a field.                                  *)

\* the day whose bucket file is found
FoundDay == 1

FoundItem == [url |-> "L1", kind |-> "legacy", title |-> <<"L1">>, tags |-> <<>>]

\* index documents on which _read_json or _coerce_daily_updates_index raises
BadIndexDocs ==
    { Damaged("empty"), Damaged("partial"), Damaged("array"),
      [subtitle |-> "", days |-> <<FoundDay>>],
      [title |-> "", subtitle |-> "", days |-> <<FoundDay>>],
      [title |-> "Daily Updates", days |-> <<FoundDay>>],
      [title |-> "Daily Updates", subtitle |-> ""] }

\* bucket documents on which _read_json or _coerce_daily_day raises
BadDayDocs ==
    { Damaged("empty"), Damaged("array"), [date |-> FoundDay] }

\* one command line: no dry run, no API key, the author filter at its default
ArgsDefault == [dry_run : {FALSE}, max_new : {2}, max_new_commits : {2},
                openai : {FALSE}, author_filter : {"org"}]

InitDamaged ==
    /\ stateFile = NoFile
    /\ indexFile \in {File(d) : d \in {index_doc(<<FoundDay>>)} \cup BadIndexDocs}
    /\ dayFiles \in [{FoundDay} -> {day_doc(FoundDay, <<FoundItem>>)} \cup BadDayDocs]
    /\ legacyFile = NoFile
    /\ now = FirstRunAt
    /\ pc = "idle"
    /\ Locals0
    /\ NoGenerator
    /\ NoSearch
    /\ NoResume

StartDamaged == Start(ArgsDefault, {FetchedBoth}, 3)

NextDamaged ==
    \/ StartDamaged
    \/ LoadIndex
    \/ LoadIndexRaise
    \/ LoadState
    \/ LoadStateRaise
    \/ PollPRs
    \/ PollCommits
    \/ PollRaise
    \/ FilterPRs
    \/ FilterPRsRaise
    \/ FilterCommits
    \/ Merge
    \/ DryRunCheck
    \/ WriteDayFile
    \/ WriteIndex
    \/ SaveState
    \/ OpenForWrite
    \/ WriteChunk
    \/ Exit
    \/ Kill

SpecDamaged == InitDamaged /\ [][NextDamaged]_vars

----------------------------------------------------------------------------
(* One run that finds a state file of the current format, of the old       *)
(* single-cursor format, or with some of the cursor fields missing or      *)
(* blank.                                                                  *)

FoundStateDocs ==
    { state_doc(1, 2, 1, <<>>),
      state_doc(2, 1, 1, <<>>),
      [last_sync |-> IsoFormatZ(1)],
      [last_sync |-> IsoFormatZ(2), last_pr_sync |-> IsoFormatZ(1)],
      [last_sync |-> IsoFormatZ(1), last_commit_sync |-> IsoFormatZ(2)],
      [last_sync |-> IsoFormatZ(1), last_pr_sync |-> Blank, last_commit_sync |-> IsoFormatZ(2)],
      [last_pr_sync |-> IsoFormatZ(1)],
      [last_sync |-> Blank, last_commit_sync |-> IsoFormatZ(2)],
      [last_run_at |-> IsoFormatZ(1)] }

InitStates ==
    /\ stateFile \in {NoFile} \cup {File(d) : d \in FoundStateDocs}
    /\ indexFile = NoFile
    /\ dayFiles = EmptyMap
    /\ legacyFile = NoFile
    /\ now = FirstRunAt
    /\ pc = "idle"
    /\ Locals0
    /\ NoGenerator
    /\ NoSearch
    /\ NoResume

StartLoading == Start(ArgsDefault, {FetchedBoth}, 1)

NextStates ==
    \/ StartLoading
    \/ LoadIndex
    \/ LoadState
    \/ PollPRs
    \/ PollCommits
    \/ FilterPRs
    \/ FilterCommits
    \/ Merge
    \/ DryRunCheck
    \/ WriteDayFile
    \/ WriteIndex
    \/ SaveState
    \/ Exit

SpecStates == InitStates /\ [][NextStates]_vars

----------------------------------------------------------------------------
(* One run that finds an index file naming days whose bucket file is gone  *)
(* (a bucket file deleted from the checkout, an index edited by hand).     *)

\* the day lists an index file on disk can have
FoundIndexDays == {<<>>, <<FoundDay>>, <<FoundDay, FoundDay - 1>>, <<FoundDay + 1, FoundDay>>}

InitStaleIndex ==
    /\ stateFile = NoFile
    /\ indexFile \in {NoFile} \cup {File(index_doc(ds)) : ds \in FoundIndexDays}
    /\ dayFiles \in {EmptyMap, [d \in {FoundDay} |-> day_doc(FoundDay, <<FoundItem>>)]}
    /\ legacyFile = NoFile
    /\ now = FirstRunAt
    /\ pc = "idle"
    /\ Locals0
    /\ NoGenerator
    /\ NoSearch
    /\ NoResume

StartOnce == Start(Args, {FetchedBoth}, 1)

NextStaleIndex ==
    \/ StartOnce
    \/ LoadIndex
    \/ LoadState
    \/ PollPRs
    \/ PollCommits
    \/ PollRaise
    \/ FilterPRs
    \/ FilterPRsRaise
    \/ FilterCommits
    \/ Merge
    \/ DryRunCheck
    \/ WriteDayFile
    \/ WriteIndex
    \/ SaveState
    \/ Exit
    \/ Kill

SpecStaleIndex == InitStaleIndex /\ [][NextStaleIndex]_vars

----------------------------------------------------------------------------
(* One run that finds bucket files with items from earlier runs, among     *)
(* them an entry without title, as the legacy migration copies it.         *)

\* the day on which two upstream items fall
BusyDay == FoundDay + 1

OlderItem == [url |-> "L2", kind |-> "legacy", title |-> <<"L2">>, tags |-> <<>>]
UntitledItem == [url |-> "L3", kind |-> "legacy", title |-> <<>>, tags |-> <<>>]

\* what a bucket file can hold when the run starts
FoundBuckets ==
    { <<FoundItem>>, <<OlderItem, FoundItem>>, <<FoundItem, UntitledItem, OlderItem>> }

InitBuckets ==
    /\ stateFile = NoFile
    /\ dayFiles \in {[d \in {BusyDay} |-> day_doc(BusyDay, b)] : b \in FoundBuckets}
    /\ indexFile = File(index_doc(<<BusyDay>>))
    /\ legacyFile = NoFile
    /\ now = FirstRunAt
    /\ pc = "idle"
    /\ Locals0
    /\ NoGenerator
    /\ NoSearch
    /\ NoResume

NextBuckets ==
    \/ StartOnce
    \/ LoadIndex
    \/ LoadState
    \/ PollPRs
    \/ PollCommits
    \/ PollRaise
    \/ FilterPRs
    \/ FilterPRsRaise
    \/ FilterCommits
    \/ Merge
    \/ DryRunCheck
    \/ WriteDayFile
    \/ WriteIndex
    \/ SaveState
    \/ Exit
    \/ Kill

SpecBuckets == InitBuckets /\ [][NextBuckets]_vars

----------------------------------------------------------------------------
(* The end of a run with the default ceilings (--max-new 30 and            *)
(* --max-new-commits 30) that has accepted up to MaxAdded items: main is   *)
(* about to call _save_state.  The items are pull requests up to the       *)
(* ceiling and commits beyond it, all of one day.                          *)

ManyUrls ==
    <<
       "u01", "u02", "u03", "u04", "u05", "u06", "u07", "u08", "u09",
       "u10", "u11", "u12", "u13", "u14", "u15", "u16", "u17", "u18",
       "u19", "u20", "u21", "u22", "u23", "u24", "u25", "u26", "u27",
       "u28", "u29", "u30", "u31", "u32", "u33", "u34", "u35", "u36",
       "u37", "u38", "u39", "u40", "u41", "u42", "u43", "u44", "u45",
       "u46", "u47", "u48", "u49", "u50", "u51", "u52", "u53", "u54",
       "u55", "u56", "u57", "u58", "u59", "u60" >>

DefaultCeiling == 30

ArgsCeiling30 == [dry_run |-> FALSE, max_new |-> DefaultCeiling,
                  max_new_commits |-> DefaultCeiling, openai |-> FALSE,
                  author_filter |-> "org"]

\* the loaded cursors of a first run entered at FirstRunAt
CursorAtFirstRun == (FirstRunAt + 1) - BootstrapDays * DayLen

\* new_items as the two loops leave it: n items, the pull requests at pr_at
\* and the commits at commit_at
ManyAccepted(n, pr_at, commit_at) ==
    [i \in 1..n |->
        IF i <= DefaultCeiling
        THEN [ts |-> pr_at, day |-> DateOf(pr_at), call |-> "not called",
              item |-> [url |-> ManyUrls[i], kind |-> "pr", title |-> <<"t">>,
                        tags |-> <<"github", "pr", "api">>]]
        ELSE [ts |-> commit_at, day |-> DateOf(commit_at), call |-> "not called",
              item |-> [url |-> ManyUrls[i], kind |-> "commit", title |-> <<"t">>,
                        tags |-> <<"github", "commit", "api">>]]]

PrsIn(n) == IF n <= DefaultCeiling THEN n ELSE DefaultCeiling

\* new_items after new_items.sort(key=timestamp, reverse=True): the sort is
\* stable, so the commits come first only when they are newer
ManySorted(n, pr_at, commit_at) ==
    LET all == ManyAccepted(n, pr_at, commit_at)
    IN  IF commit_at > pr_at
        THEN SubSeq(all, PrsIn(n) + 1, n) \o SubSeq(all, 1, PrsIn(n))
        ELSE all

\* what the merge step leaves for items that are all new and of one day
ManyMerged(sorted) ==
    [ daily_by_day  |-> IF sorted = <<>> THEN EmptyMap
                        ELSE [d \in {sorted[1].day} |-> [i \in 1..Len(sorted) |-> sorted[i].item]],
      existing_urls |-> {sorted[i].item.url : i \in 1..Len(sorted)},
      added_urls    |-> [i \in 1..Len(sorted) |-> sorted[i].item.url],
      touched_days  |-> {sorted[i].day : i \in 1..Len(sorted)} ]

InitSaving ==
    /\ \E n \in 0..MaxAdded, pr_at \in {2 * DayLen, 2 * DayLen + 1},
          commit_at \in {2 * DayLen, 2 * DayLen + 1} :
          LET m == ManyMerged(ManySorted(n, pr_at, commit_at))
          IN  /\ new_items = ManySorted(n, pr_at, commit_at)
              /\ new_prs_added = PrsIn(n)
              /\ new_commits_added = n - PrsIn(n)
              /\ max_seen_pr_sync = IF n > 0 THEN pr_at ELSE CursorAtFirstRun
              /\ max_seen_commit_sync = IF n > DefaultCeiling THEN commit_at ELSE CursorAtFirstRun
              /\ daily_by_day = m.daily_by_day
              /\ existing_urls = m.existing_urls
              /\ added_urls = m.added_urls
              /\ touched_days = m.touched_days
              /\ dayFiles = [d \in m.touched_days |-> day_doc(d, m.daily_by_day[d])]
              /\ indexFile = File(index_doc(SortedDesc(m.touched_days)))
              /\ writes = [i \in 1..Cardinality(m.touched_days) |-> "day"] \o <<"index">>
              /\ eligible_prs = {[url |-> ManyUrls[i], ts |-> pr_at] : i \in 1..PrsIn(n)}
              /\ eligible_commits = {[url |-> ManyUrls[i], ts |-> commit_at] :
                                         i \in (PrsIn(n) + 1)..n}
              /\ returned = n
              /\ plain = [new_items |-> SkeletonOf(SubSeq(ManyAccepted(n, pr_at, commit_at),
                                                          1, PrsIn(n))),
                          added |-> PrsIn(n),
                          max_seen |-> IF n > 0 THEN pr_at ELSE CursorAtFirstRun]
    /\ stateFile = NoFile /\ legacyFile = NoFile
    /\ now = FirstRunAt + 1
    /\ pc = "persist_state"
    /\ args = ArgsCeiling30 /\ run_at = FirstRunAt
    /\ days = <<>>
    /\ last_pr_sync = CursorAtFirstRun /\ last_commit_sync = CursorAtFirstRun
    /\ pr_since_date = since_date(CursorAtFirstRun)
    /\ commit_since_date = since_date(CursorAtFirstRun)
    /\ raw_prs = <<>> /\ raw_commits = <<>>
    /\ pending = <<>>
    /\ dropped = {} /\ raised_by = "none"
    /\ allowed_logins = github_get_allowed_logins(FetchedBoth) /\ allow_fetch = FetchedBoth
    /\ pre = NoPre
    /\ other = NotRunning
    /\ NoGenerator
    /\ NoSearch
    /\ NoResume

NextSaving ==
    \/ SaveState
    \/ Exit

SpecSaving == InitSaving /\ [][NextSaving]_vars

----------------------------------------------------------------------------
(* Two sync processes on the same files.  The script takes no lock and     *)
(* looks for no other instance, so a second process can enter main while   *)
(* the first is in it.  One process is scheduled at a time; the locals of  *)
(* the other wait in `other`.  The processor is handed over around the     *)
(* file writes: between them a process touches only its own locals.        *)

HandOverAt == {"persist_days", "persist_index", "persist_state", "done"}

\* the scheduler takes the processor from one process and gives it to the other
Switch ==
    /\ pc \in HandOverAt
    /\ other' = Locals
    /\ pc' = other.pc
    /\ args' = other.args
    /\ run_at' = other.run_at
    /\ days' = other.days
    /\ daily_by_day' = other.daily_by_day
    /\ existing_urls' = other.existing_urls
    /\ last_pr_sync' = other.last_pr_sync
    /\ last_commit_sync' = other.last_commit_sync
    /\ pr_since_date' = other.pr_since_date
    /\ commit_since_date' = other.commit_since_date
    /\ raw_prs' = other.raw_prs
    /\ raw_commits' = other.raw_commits
    /\ new_items' = other.new_items
    /\ max_seen_pr_sync' = other.max_seen_pr_sync
    /\ max_seen_commit_sync' = other.max_seen_commit_sync
    /\ new_prs_added' = other.new_prs_added
    /\ new_commits_added' = other.new_commits_added
    /\ touched_days' = other.touched_days
    /\ added_urls' = other.added_urls
    /\ pending' = other.pending
    /\ eligible_prs' = other.eligible_prs
    /\ eligible_commits' = other.eligible_commits
    /\ returned' = other.returned
    /\ plain' = other.plain
    /\ dropped' = other.dropped
    /\ allowed_logins' = other.allowed_logins
    /\ allow_fetch' = other.allow_fetch
    /\ raised_by' = other.raised_by
    /\ pre' = other.pre
    /\ writes' = other.writes
    /\ UNCHANGED <<gen, search, resume, disk, now>>

StartOverlapping == Start(ArgsDefault, {FetchedBoth}, 2)

NextOverlap ==
    \/ StartOverlapping
    \/ Switch
    \/ LoadIndex
    \/ LoadState
    \/ PollPRs
    \/ PollCommits
    \/ FilterPRs
    \/ FilterCommits
    \/ Merge
    \/ DryRunCheck
    \/ WriteDayFile
    \/ WriteIndex
    \/ SaveState

\* no legacy file is left to migrate
InitOverlap == Init /\ legacyFile = NoFile

SpecOverlap == InitOverlap /\ [][NextOverlap]_vars

----------------------------------------------------------------------------
(* The snapshot generators: generate_creator_fees_snapshot.py,             *)
(* generate_recent_orders.py and generate_revenue_snapshot.py.  A          *)
(* behaviour runs one of them again and again on its output path.          *)

Generators == {"creator_fees", "recent_orders", "revenue"}

\* what the queried system can answer
GenData == {"a", "b"}

\* args.output / OUTPUT_PATH
OutPath == "snapshot.json"

\* fault: the text is written to the output path itself
with_suffix_same(path) == path

\* path.with_suffix(path.suffix + ".tmp")
with_suffix_tmp(path) == IF path = "snapshot.json" THEN "snapshot.json.tmp" ELSE path

\* Path.replace: src is renamed over dst
replace(files, src, dst) ==
    IF src = dst THEN files
    ELSE [files EXCEPT ![dst] = files[src], ![src] = NoFile]

\* the value main returns from its except branch
failure_code(g) == IF g = "creator_fees" THEN 1 ELSE 2

\* the process of the generator ends: its locals are gone
GenDropLocals ==
    /\ gen_payload' = <<>> /\ gen_exit' = <<>> /\ gen_pre' = NoFile /\ gen_failed' = FALSE
    /\ gen_rows' = <<>>

InitGen ==
    /\ stateFile = NoFile /\ indexFile = NoFile /\ dayFiles = EmptyMap
    /\ legacyFile = NoFile /\ now = FirstRunAt /\ pc = "idle" /\ Locals0
    /\ NoSearch
    /\ NoResume
    /\ gen_name \in Generators
    /\ gen_pc = "idle"
    /\ gen_files = [p \in {OutPath, with_suffix_tmp(OutPath)} |-> NoFile]
    /\ gen_payload = <<>> /\ gen_exit = <<>> /\ gen_pre = NoFile /\ gen_failed = FALSE
    /\ gen_rows = <<>>

\* main is entered
GenStart ==
    /\ gen_pc = "idle"
    /\ gen_pc' = "query"
    /\ gen_pre' = gen_files[OutPath]
    /\ UNCHANGED <<sync, search, resume, gen_rows, gen_name, gen_files, gen_payload, gen_exit, gen_failed>>

\* _django_query, or the fetch_creator_fees calls, return: the snapshot is built
GenQuery ==
    /\ gen_pc = "query"
    /\ \E d \in GenData : gen_payload' = <<[data |-> d, sol_price_usd |-> "none"]>>
    /\ gen_pc' = IF gen_name = "creator_fees" THEN "price" ELSE "write_open"
    /\ UNCHANGED <<sync, search, resume, gen_rows, gen_name, gen_files, gen_exit, gen_pre, gen_failed>>

\* the query raises: main prints the error and returns its failure code
GenQueryFail ==
    /\ gen_pc = "query"
    /\ gen_failed' = TRUE
    /\ gen_exit' = <<failure_code(gen_name)>>
    /\ gen_pc' = "exited"
    /\ UNCHANGED <<sync, search, resume, gen_rows, gen_name, gen_files, gen_payload, gen_pre>>

\* fetch_sol_price_usd: the quoted price, or 200.0 when the request fails
GenPrice ==
    /\ gen_pc = "price"
    /\ \E ok \in BOOLEAN :
          /\ gen_payload' = <<[gen_payload[1] EXCEPT
                                  !.sol_price_usd = IF ok THEN "quoted" ELSE "fallback"]>>
          /\ gen_failed' = ~ok
    /\ gen_pc' = "write_open"
    /\ UNCHANGED <<sync, search, resume, gen_rows, gen_name, gen_files, gen_exit, gen_pre>>

\* tmp.write_text opens the temporary file
GenOpenTmp ==
    /\ gen_pc = "write_open"
    /\ gen_files' = [gen_files EXCEPT ![with_suffix_tmp(OutPath)] = File(Damaged("empty"))]
    /\ gen_pc' = "write_text"
    /\ UNCHANGED <<sync, search, resume, gen_rows, gen_name, gen_payload, gen_exit, gen_pre, gen_failed>>

\* a part of the text has reached the temporary file
GenWriteChunk ==
    /\ gen_pc = "write_text"
    /\ gen_files[with_suffix_tmp(OutPath)] = File(Damaged("empty"))
    /\ gen_files' = [gen_files EXCEPT ![with_suffix_tmp(OutPath)] = File(Damaged("partial"))]
    /\ UNCHANGED <<sync, search, resume, gen_rows, gen_name, gen_pc, gen_payload, gen_exit, gen_pre, gen_failed>>

\* tmp.write_text returns: the temporary file holds the whole text
GenWriteText ==
    /\ gen_pc = "write_text"
    /\ gen_files' = [gen_files EXCEPT ![with_suffix_tmp(OutPath)] = File(gen_payload[1])]
    /\ gen_pc' = "replace"
    /\ UNCHANGED <<sync, search, resume, gen_rows, gen_name, gen_payload, gen_exit, gen_pre, gen_failed>>

\* tmp.replace(path)
GenReplace ==
    /\ gen_pc = "replace"
    /\ gen_files' = replace(gen_files, with_suffix_tmp(OutPath), OutPath)
    /\ gen_pc' = "return"
    /\ UNCHANGED <<sync, search, resume, gen_rows, gen_name, gen_payload, gen_exit, gen_pre, gen_failed>>

\* print(...) ; return 0
GenReturn ==
    /\ gen_pc = "return"
    /\ gen_exit' = <<0>>
    /\ gen_pc' = "exited"
    /\ UNCHANGED <<sync, search, resume, gen_rows, gen_name, gen_files, gen_payload, gen_pre, gen_failed>>

\* the process has ended with its exit code
GenExit ==
    /\ gen_pc = "exited"
    /\ gen_pc' = "idle"
    /\ GenDropLocals
    /\ UNCHANGED <<sync, search, resume, gen_name, gen_files>>

\* the process is terminated in the middle of a run
GenKill ==
    /\ gen_pc \notin {"idle", "exited"}
    /\ gen_pc' = "idle"
    /\ GenDropLocals
    /\ UNCHANGED <<sync, search, resume, gen_name, gen_files>>

NextGen ==
    \/ GenStart
    \/ GenQuery
    \/ GenQueryFail
    \/ GenPrice
    \/ GenOpenTmp
    \/ GenWriteChunk
    \/ GenWriteText
    \/ GenReplace
    \/ GenReturn
    \/ GenExit
    \/ GenKill

SpecGen == InitGen /\ [][NextGen]_vars

----------------------------------------------------------------------------
(* generate_recent_orders.py with the rows it reads.  A text is a sequence *)
(* of one-character strings; of an order only the id is kept.              *)

Stars == <<"*", "*", "*", "*">>

\* the characters of str(uuid)
IdChars == <<"0", "1", "2", "3", "4", "5", "6", "7", "8", "9",
             "a", "b", "c", "d", "e", "f", "-">>

\* a text of n characters; k makes texts of one length differ
IdText(n, k) == [i \in 1..n |-> IdChars[((i * k) % Len(IdChars)) + 1]]

\* str(row.id) of the rows: a UUID has 36 characters; the shorter texts are
\* around the length from which _mask_order_id masks
RowIds == {IdText(n, k) : n \in IdLengths, k \in 1..IdVariants}

\* fault: the text is masked only when it is longer than the masked form
mask_order_id_late(order_id) ==
    IF Len(order_id) <= 24 THEN order_id
    ELSE SubSeq(order_id, 1, 10) \o Stars \o SubSeq(order_id, Len(order_id) - 9, Len(order_id))

\* _mask_order_id: s[:10] + "****" + s[-10:] when len(s) > 20
mask_order_id(order_id) ==
    IF Len(order_id) <= 20 THEN order_id
    ELSE SubSeq(order_id, 1, 10) \o Stars \o SubSeq(order_id, Len(order_id) - 9, Len(order_id))

\* _django_query returns: rows[:limit], one order for each row
GenQueryOrders ==
    /\ gen_pc = "query"
    /\ \E rows \in SeqsUpTo(RowIds, MaxRows) :
          /\ gen_rows' = rows
          /\ gen_payload' = <<[total |-> Len(rows),
                               orders |-> [i \in 1..Len(rows) |-> [id |-> mask_order_id(rows[i])]]]>>
    /\ gen_pc' = "write_open"
    /\ UNCHANGED <<sync, search, resume, gen_name, gen_files, gen_exit, gen_pre, gen_failed>>

InitOrders ==
    /\ stateFile = NoFile /\ indexFile = NoFile /\ dayFiles = EmptyMap
    /\ legacyFile = NoFile /\ now = FirstRunAt /\ pc = "idle" /\ Locals0
    /\ NoSearch
    /\ NoResume
    /\ gen_name = "recent_orders"
    /\ gen_pc = "idle"
    /\ gen_files = [p \in {OutPath, with_suffix_tmp(OutPath)} |-> NoFile]
    /\ gen_payload = <<>> /\ gen_exit = <<>> /\ gen_pre = NoFile /\ gen_failed = FALSE
    /\ gen_rows = <<>>

NextOrders ==
    \/ GenStart
    \/ GenQueryOrders
    \/ GenQueryFail
    \/ GenOpenTmp
    \/ GenWriteText
    \/ GenReplace
    \/ GenReturn

SpecOrders == InitOrders /\ [][NextOrders]_vars

----------------------------------------------------------------------------
(* A run that is killed between two of its whole-file writes, and the runs *)
(* after it: same command line, same search results.                       *)

ResumeRuns == 3       \* runs of the script, the killed ones included

\* the state files a first run can find: none, or one written by an earlier run
FoundStates == {NoFile, File(state_doc(FirstRunAt, FirstRunAt, FirstRunAt, <<>>))}

\* the command lines tried: the pull-request ceiling cuts, or does not
ArgsResume == [dry_run : {FALSE}, max_new : Ceilings, max_new_commits : {2},
               openai : {FALSE}, author_filter : {"org"}]

StartResuming ==
    /\ killed # <<>> => \E a \in {killed[1].args} : Start({a}, {FetchedBoth}, ResumeRuns)
    /\ killed = <<>> => Start(ArgsResume, {FetchedBoth}, ResumeRuns)

\* the bucket files the run has written so far
days_written == touched_days \ Range(pending)

\* the process is terminated after one of its bucket writes or after the
\* index write, before the next write
KillBetweenWrites ==
    /\ \/ pc = "persist_days" /\ days_written # {}
       \/ pc = "persist_index" /\ days_written # {}
       \/ pc = "persist_state"
    /\ killed' = << [ args         |-> args,
                      state_before |-> pre.stateFile,
                      accepted     |-> {new_items[i].item : i \in 1..Len(new_items)},
                      written      |-> UNION {Range(dayFiles[d].items) : d \in days_written} ] >>
    /\ pc' = "idle"
    /\ ResetLocals
    /\ UNCHANGED <<gen, search, results, other, disk, now>>

InitResume ==
    /\ stateFile \in FoundStates
    /\ indexFile = NoFile
    /\ dayFiles = EmptyMap
    /\ legacyFile = NoFile
    /\ now \in {FirstRunAt, FirstRunAt + 1}
    /\ pc = "idle"
    /\ Locals0
    /\ NoGenerator
    /\ NoSearch
    /\ killed = <<>>
    /\ results \in {<<[prs |-> p, commits |-> c]>> :
                       p \in SeqsUpTo(PrUniverse, MaxRaw), c \in SeqsUpTo(CommitUniverse, MaxRaw)}

NextResume ==
    \/ StartResuming
    \/ LoadIndex
    \/ LoadState
    \/ PollPRs
    \/ PollCommits
    \/ FilterPRs
    \/ FilterCommits
    \/ Merge
    \/ DryRunCheck
    \/ WriteDayFile
    \/ WriteIndex
    \/ SaveState
    \/ KillBetweenWrites

SpecResume == InitResume /\ [][NextResume]_vars

----------------------------------------------------------------------------
(* One search poll: _search_merged_prs or _search_commits against an       *)
(* upstream that holds some pages of results.                              *)

PerPage == 2          \* per_page
MaxItems == 5         \* largest --max-items
MaxPages == 3         \* pages the upstream holds

\* elements of a page: two results, and an element that is no JSON object
NotADict == "null"
PageElements == {"a", "b", NotADict}

\* payload.get("items") of the page numbered p; past the last page the list is empty
github_get_page(pages, p) == IF p <= Len(pages) THEN pages[p] ELSE <<>>

\* what the loop adds to items: items.extend(page_items), or for the commit
\* search the elements that are dicts
page_kept(kind, page_items) ==
    IF kind = "commits" THEN SelectSeq(page_items, LAMBDA it : it # NotADict)
    ELSE page_items

\* fault: the loop goes on while len(items) <= max_items
search_continues_at_ceiling(collected, ceiling) == Len(collected) <= ceiling

\* while len(items) < max_items
search_continues(collected, ceiling) == Len(collected) < ceiling

InitSearch ==
    /\ stateFile = NoFile /\ indexFile = NoFile /\ dayFiles = EmptyMap
    /\ legacyFile = NoFile /\ now = FirstRunAt /\ pc = "idle" /\ Locals0 /\ NoGenerator
    /\ NoResume
    /\ search_pc = "loop"
    /\ search_kind \in {"prs", "commits"}
    /\ upstream \in SeqsUpTo(SeqsUpTo(PageElements, PerPage), MaxPages)
    /\ max_items \in 0..MaxItems
    /\ search_items = <<>>
    /\ search_page = 1
    /\ requested = <<>>

\* one pass of the while loop: the page is requested and added
SearchRequest ==
    /\ search_pc = "loop"
    /\ search_continues(search_items, max_items)
    /\ LET page_items == github_get_page(upstream, search_page)
       IN  /\ requested' = Append(requested, search_page)
           /\ IF page_items = <<>>
              THEN /\ search_pc' = "break"
                   /\ UNCHANGED <<search_items, search_page>>
              ELSE /\ search_items' = search_items \o page_kept(search_kind, page_items)
                   /\ IF Len(page_items) < PerPage
                      THEN search_pc' = "break" /\ UNCHANGED search_page
                      ELSE search_pc' = "loop" /\ search_page' = search_page + 1
    /\ UNCHANGED <<sync, gen, resume, search_kind, upstream, max_items>>

\* the loop is left and items[:max_items] is returned
SearchReturn ==
    /\ \/ search_pc = "break"
       \/ search_pc = "loop" /\ ~search_continues(search_items, max_items)
    /\ search_items' = Prefix(search_items, max_items)
    /\ search_pc' = "returned"
    /\ UNCHANGED <<sync, gen, resume, search_kind, upstream, max_items, search_page, requested>>

NextSearch ==
    \/ SearchRequest
    \/ SearchReturn

\* the process runs until the function returns
SpecSearch == InitSearch /\ [][NextSearch]_vars /\ WF_vars(NextSearch)

----------------------------------------------------------------------------
(* What the claims read *)

\* the items of every day-bucket file, as (day, position) places
Places(files) == UNION {{<<d, i>> : i \in 1..Len(files[d].items)} : d \in DOMAIN files}

StoreUrls(files) == UNION {UrlsOf(files[d].items) : d \in DOMAIN files}

Wrote(kind) == \E i \in 1..Len(writes) : writes[i] = kind

\* the run has returned after writing the state file
Persisted == pc = "done" /\ Wrote("state")

saved_pr_sync == parse_iso_datetime(Doc(stateFile).last_pr_sync)
saved_commit_sync == parse_iso_datetime(Doc(stateFile).last_commit_sync)

TsOfKind(kind) == {new_items[i].ts : i \in {j \in 1..Len(new_items) : new_items[j].item.kind = kind}}

MaxOf(S) == CHOOSE x \in S : \A y \in S : y <= x

----------------------------------------------------------------------------
(* C1: in every state, whatever the searches returned (the same URL twice, *)
(* or URLs already stored), no URL is held by two items of the day-bucket  *)
(* files.                                                                  *)
C1_UrlUnique ==
    \A a, b \in Places(dayFiles) :
        a # b => dayFiles[a[1]].items[a[2]].url # dayFiles[b[1]].items[b[2]].url

\* a run accepted the same URL twice and has written its buckets
C1_Witness ==
    /\ Persisted
    /\ Len(added_urls) > 0
    /\ Len(new_items) > Len(added_urls)

(* C2: a run that writes the state file writes cursors that are at least   *)
(* the cursors it loaded, and at least those of the state file it found.   *)
C2_CursorMonotonic ==
    Persisted =>
        /\ saved_pr_sync >= last_pr_sync
        /\ saved_commit_sync >= last_commit_sync
        /\ Exists(pre.stateFile) =>
              /\ saved_pr_sync >= parse_iso_datetime(Doc(pre.stateFile).last_pr_sync)
              /\ saved_commit_sync >= parse_iso_datetime(Doc(pre.stateFile).last_commit_sync)

\* a second run moved the commit cursor and accepted no pull request
C2_Witness ==
    /\ Persisted
    /\ Exists(pre.stateFile)
    /\ saved_commit_sync > last_commit_sync
    /\ new_prs_added = 0

(* C3: after a run that accepted an item, the saved PR cursor is the       *)
(* maximum of the loaded PR cursor and the merge times of the accepted     *)
(* PRs, and the saved commit cursor is the maximum of the loaded commit    *)
(* cursor and the times of the accepted commits; skipped candidates do not *)
(* count.                                                                  *)
C3_CursorIsMaxAccepted ==
    (Persisted /\ new_items # <<>>) =>
        /\ saved_pr_sync = MaxOf({last_pr_sync} \cup TsOfKind("pr"))
        /\ saved_commit_sync = MaxOf({last_commit_sync} \cup TsOfKind("commit"))

\* two PRs were accepted, the newer one first, and the cursor is the newer one's time
C3_Witness ==
    /\ Persisted
    /\ Len(new_items) >= 2
    /\ new_items[1].item.kind = "pr" /\ new_items[2].item.kind = "pr"
    /\ new_items[1].ts > new_items[2].ts
    /\ saved_pr_sync = new_items[1].ts

(* C4: after a persisting run, every returned PR (commit) that passes all   *)
(* the checks and whose time is after the loaded cursor and not after the  *)
(* saved cursor is in the store, for every result order and every ceiling. *)
C4_NothingBehindCursor ==
    Persisted =>
        /\ \A e \in eligible_prs :
              e.ts <= saved_pr_sync => e.url \in StoreUrls(dayFiles)
        /\ \A e \in eligible_commits :
              e.ts <= saved_commit_sync => e.url \in StoreUrls(dayFiles)

(* C5: after a completed persisting run the index's day list and the set   *)
(* of day-bucket files are equal as sets, and the list is strictly         *)
(* descending.                                                             *)
C5_IndexMatchesFiles ==
    Persisted =>
        LET ds == Doc(indexFile).days
        IN  /\ Exists(indexFile)
            /\ Range(ds) = DOMAIN dayFiles
            /\ \A i \in 1..Len(ds) - 1 : ds[i] > ds[i + 1]

\* a persisting run ended with three bucket files, one of them written by it
C5_Witness ==
    /\ Persisted
    /\ Cardinality(DOMAIN dayFiles) >= 3
    /\ touched_days # {}
    /\ Exists(pre.indexFile)

----------------------------------------------------------------------------
\* the files as they are now, in the shape of pre
Disk == [stateFile |-> stateFile, indexFile |-> indexFile,
         dayFiles |-> dayFiles, legacyFile |-> legacyFile]

\* a persisting run whose two searches returned nothing has ended
EmptyUpstreamRun == Persisted /\ returned = 0

\* the index lists exactly the day-bucket files, newest first
IndexInStep(index, files) ==
    Exists(index) /\ Doc(index).days = SortedDesc(DOMAIN files)

(* C6 as stated: a run with an empty upstream result leaves the bucket     *)
(* files and the index file as they were and changes nothing in the state  *)
(* file but last_run_at.                                                   *)
C6_EmptyRunChangesOnlyRunAt ==
    (EmptyUpstreamRun /\ Exists(pre.stateFile) /\ Exists(pre.indexFile)) =>
        /\ dayFiles = pre.dayFiles
        /\ indexFile = pre.indexFile
        /\ [Doc(stateFile) EXCEPT !.last_run_at = Doc(pre.stateFile).last_run_at]
              = Doc(pre.stateFile)

(* C6 amended: a run with an empty upstream result and an index file to    *)
(* load leaves every bucket file as it was, leaves the index as it was     *)
(* when it listed exactly the bucket files, keeps last_pr_sync,            *)
(* last_commit_sync and last_sync of the state file it found, sets         *)
(* last_run_at to its start time and empties last_added_urls; when         *)
(* last_added_urls was empty already, only last_run_at changes.            *)
C6_EmptyRunResetsAddedUrls ==
    (EmptyUpstreamRun /\ Exists(pre.indexFile)) =>
        /\ dayFiles = pre.dayFiles
        /\ IndexInStep(pre.indexFile, pre.dayFiles) => indexFile = pre.indexFile
        /\ Exists(pre.stateFile) =>
              /\ Doc(stateFile) =
                    [Doc(pre.stateFile) EXCEPT !.last_run_at = IsoFormatZ(run_at),
                                               !.last_added_urls = <<>>]
              /\ Doc(pre.stateFile).last_added_urls = <<>> =>
                    [Doc(stateFile) EXCEPT !.last_run_at = Doc(pre.stateFile).last_run_at]
                       = Doc(pre.stateFile)

\* an empty run follows a run that added items and left two different cursors
C6_Witness ==
    /\ EmptyUpstreamRun
    /\ Exists(pre.indexFile) /\ Exists(pre.stateFile)
    /\ Doc(pre.stateFile).last_added_urls # <<>>
    /\ saved_pr_sync # saved_commit_sync
    /\ DOMAIN dayFiles # {}

(* C7: a non-dry run that accepts nothing still writes the state file,     *)
(* with the cursors it loaded and with last_run_at equal to its start      *)
(* time, which is later than the last_run_at it found.                     *)
C7_NoopRunWritesState ==
    (pc = "done" /\ ~args.dry_run /\ new_items = <<>>) =>
        /\ Wrote("state")
        /\ Exists(stateFile)
        /\ saved_pr_sync = last_pr_sync
        /\ saved_commit_sync = last_commit_sync
        /\ parse_iso_datetime(Doc(stateFile).last_run_at) = run_at
        /\ Exists(pre.stateFile) =>
              run_at > parse_iso_datetime(Doc(pre.stateFile).last_run_at)

\* a no-op run found a state file, with candidates returned but none accepted
C7_Witness ==
    /\ pc = "done" /\ ~args.dry_run /\ new_items = <<>>
    /\ Exists(pre.stateFile)
    /\ returned > 0
    /\ last_pr_sync # last_commit_sync

(* C8: a dry run creates, changes and deletes no file: from its start to   *)
(* its end the state, index, bucket and legacy files are as it found them. *)
C8_DryRunWritesNothing ==
    (pc # "idle" /\ args.dry_run) => (Disk = pre /\ writes = <<>>)

\* a dry run that had a legacy file to migrate and new items to add has ended
C8_Witness ==
    /\ pc = "done" /\ args.dry_run
    /\ Exists(legacyFile) /\ ~Exists(indexFile)
    /\ new_items # <<>>
    /\ touched_days # {}

(* C9: when a GitHub request raises during polling or filtering, the run   *)
(* ends with every file as it was before the run.                          *)
C9_AbortPersistsNothing ==
    pc = "aborted" => Disk = pre

(* C10: in a run the bucket files are written before the index and the     *)
(* state file after the index; and in every state, so wherever the process *)
(* stops, each day the on-disk index lists has a bucket file.              *)
C10_PersistOrder ==
    /\ \A i, j \in 1..Len(writes) :
          i < j =>
             /\ writes[i] = "index" => writes[j] # "day"
             /\ writes[i] = "state" => writes[j] \notin {"day", "index"}
    /\ Persisted => (Wrote("index") /\ writes[Len(writes)] = "state")
    /\ Exists(indexFile) => Range(Doc(indexFile).days) \subseteq DOMAIN dayFiles

\* the process was killed after the buckets and the index, before the state file
C10_Witness ==
    /\ pc = "idle"
    /\ Exists(indexFile) /\ Doc(indexFile).days # <<>>
    /\ ~Exists(stateFile)

----------------------------------------------------------------------------
\* every file on disk holds a complete JSON object
AllWhole ==
    /\ Exists(stateFile) => Whole(Doc(stateFile))
    /\ Exists(indexFile) => Whole(Doc(indexFile))
    /\ \A d \in DOMAIN dayFiles : Whole(dayFiles[d])

(* C11: at every moment of a run each of the state file, the index file    *)
(* and the day-bucket files holds either the complete content it had when  *)
(* the run began or the complete content the run writes, never an empty or *)
(* partly written text.                                                    *)
C11_ReadersSeeWholeFiles ==
    /\ AllWhole
    /\ pc # "idle" =>
          /\ stateFile # pre.stateFile => Wrote("state")
          /\ indexFile # pre.indexFile => Wrote("index")
          /\ dayFiles # pre.dayFiles => Wrote("day")

----------------------------------------------------------------------------
\* the generator's output file and its temporary file
gen_out == gen_files[OutPath]
gen_tmp == gen_files[with_suffix_tmp(OutPath)]

(* C12: in each generator the snapshot is written whole to the sibling     *)
(* .tmp file and then renamed over the output path: the output path always *)
(* holds a complete document, and during a run it holds the snapshot the   *)
(* run found there until the rename and the run's own snapshot after it.   *)
C12_OutputWholeAtEveryStep ==
    /\ Exists(gen_out) => Whole(Doc(gen_out))
    /\ gen_pc \in {"query", "price", "write_open", "write_text", "replace"} => gen_out = gen_pre
    /\ gen_pc = "replace" => gen_tmp = File(gen_payload[1])
    /\ gen_pc = "return" => (gen_out = File(gen_payload[1]) /\ ~Exists(gen_tmp))

\* the rename has put a new snapshot in the place of a different earlier one
C12_Witness ==
    /\ gen_pc = "return"
    /\ Exists(gen_pre)
    /\ gen_out # gen_pre
    /\ gen_out = File(gen_payload[1])

----------------------------------------------------------------------------
\* the stored pull-request items added by the run
AddedPrItems ==
    { it \in UNION {Range(dayFiles[d].items) : d \in DOMAIN dayFiles} :
         it.kind = "pr" /\ it.url \in Range(added_urls) }

(* C13: whatever the text generation answers for each pull request (a      *)
(* transport or HTTP error, a response that is no object, missing or empty *)
(* choices, content that is no string, text without a JSON object, members *)
(* of the wrong type), no run is ended by it; the loop over the search     *)
(* results accepts the same pull requests in the same order and reaches    *)
(* the same cursor as it does on the same input without an API key; and    *)
(* when the run has saved its state every accepted item is in the store.   *)
C13_EnrichmentNeverFailsRun ==
    /\ raised_by # "openai"
    /\ SkeletonOf(SelectSeq(new_items, LAMBDA x : x.item.kind = "pr")) = plain.new_items
    /\ max_seen_pr_sync = plain.max_seen
    /\ new_prs_added = plain.added
    /\ Persisted => \A i \in 1..Len(new_items) : new_items[i].item.url \in StoreUrls(dayFiles)

\* a run with an API key stored one pull request as the generated text has it
\* and one with nothing from the text generation
C13_Witness ==
    /\ Persisted /\ args.openai
    /\ \E a, b \in AddedPrItems :
          /\ "summary" \in DOMAIN a /\ a.title = <<"Pretty title">>
          /\ "summary" \notin DOMAIN b /\ b.title # <<"Pretty title">>

----------------------------------------------------------------------------
\* the pull request of the upstream with this URL
PrOf(url) == CHOOSE p \in PrUniverse : p.url = url

\* the item has the fallback title, no summary and the three fixed tags
Unenriched(item) ==
    LET p == PrOf(item.url)
    IN  /\ item.title = <<p.repo, "#", p.number, ": ", p.title>>
        /\ "summary" \notin DOMAIN item
        /\ item.tags = <<"github", "pr", p.repo>>

(* C14: an accepted pull request whose text-generation call raised, or     *)
(* answered with a text no part of which is a JSON object, gets the title  *)
(* "<repo>#<number>: <PR title>", no summary field and the tags            *)
(* [github, pr, <repo>]; and the pull-request items a run adds to the      *)
(* store are items it built this way.                                      *)
C14_FallbackItem ==
    /\ \A i \in 1..Len(new_items) :
          new_items[i].call \in {"raised", "no object"} => Unenriched(new_items[i].item)
    /\ Persisted => \A it \in AddedPrItems : \E i \in 1..Len(new_items) : new_items[i].item = it

\* a run stored one pull request whose call raised and one whose answer held no
\* object
C14_Witness ==
    /\ Persisted /\ args.openai
    /\ \E i, j \in 1..Len(new_items) :
          /\ new_items[i].call = "raised" /\ new_items[i].item \in AddedPrItems
          /\ new_items[j].call = "no object" /\ new_items[j].item \in AddedPrItems

----------------------------------------------------------------------------
\* main is past _load_state and has not been left by an exception
CursorsLoaded == pc \notin {"idle", "load_index", "load_state", "aborted"}

\* the items dropped because their time is at or before the loaded cursor
stale == {x \in dropped : x.why = "cursor"}

\* the loaded cursor of the stream
LoadedCursor(kind) == IF kind = "pr" THEN last_pr_sync ELSE last_commit_sync

(* C15: the minimum date of each search is the calendar date of the stream's *)
(* loaded cursor less one day; every accepted item is later than the loaded  *)
(* cursor of its stream; and an item the loop dropped because its time is at *)
(* or before that cursor is in no bucket file, also when its date is on or   *)
(* after the minimum date of the search.                                     *)
C15_SinceDateAndCursorCheck ==
    /\ CursorsLoaded =>
          /\ pr_since_date = DateOf(last_pr_sync) - 1
          /\ commit_since_date = DateOf(last_commit_sync) - 1
    /\ \A i \in 1..Len(new_items) :
          new_items[i].ts > LoadedCursor(new_items[i].item.kind)
    /\ \A x \in stale :
          /\ x.ts <= LoadedCursor(x.kind)
          /\ x.url \notin StoreUrls(dayFiles)
          /\ x.url \notin Range(added_urls)

\* a run that stored new items dropped a pull request that the search had to
\* return: merged on or after the minimum date, at or before the cursor
C15_Witness ==
    /\ Persisted
    /\ added_urls # <<>>
    /\ \E x \in stale :
          /\ x.kind = "pr"
          /\ DateOf(x.ts) >= pr_since_date
          /\ x.ts <= last_pr_sync
          /\ DateOf(x.ts) = DateOf(last_pr_sync) - 1

----------------------------------------------------------------------------
\* the instant at which the pull request or commit with this URL happened
OccurredAt(url) ==
    LET u == CHOOSE x \in PrUniverse \cup CommitUniverse : x.url = url
    IN  u.at

UpstreamUrls == {x.url : x \in PrUniverse \cup CommitUniverse}

(* C16: every bucket file carries its own day in its date field, and every *)
(* pull request or commit in it happened on that UTC calendar day,         *)
(* whatever zone suffix its timestamp text has and at whatever time the    *)
(* runs started.                                                           *)
C16_FiledUnderUtcDay ==
    \A d \in DOMAIN dayFiles :
        /\ dayFiles[d].date = d
        /\ \A i \in 1..Len(dayFiles[d].items) :
              dayFiles[d].items[i].url \in UpstreamUrls =>
                  DateOf(OccurredAt(dayFiles[d].items[i].url)) = d

\* a run stored a pull request whose timestamp text is ahead of UTC and shows
\* the next calendar day
C16_Witness ==
    /\ Persisted
    /\ \E p \in PrUniverse :
          /\ p.merged_at.tz = "+12:00"
          /\ p.merged_at.date # DateOf(p.at)
          /\ p.url \in Range(added_urls)
          /\ DateOf(p.at) \in DOMAIN dayFiles
          /\ p.url \in UrlsOf(dayFiles[DateOf(p.at)].items)

----------------------------------------------------------------------------
\* the author login of the pull request or commit with this URL, "" when absent
AuthorOf(url) ==
    LET u == CHOOSE x \in PrUniverse \cup CommitUniverse : x.url = url
    IN  u.author

\* the members and outside collaborators the requests of this run delivered
FetchedLogins ==
    (IF allow_fetch.members = "ok" THEN OrgMembers ELSE {})
    \cup (IF allow_fetch.outside = "ok" THEN OutsideCollaborators ELSE {})

\* the login is present and equals a fetched login up to letter case
Permitted(url) ==
    /\ AuthorOf(url) # ""
    /\ \E m \in FetchedLogins : Lower(m) = Lower(AuthorOf(url))

\* the URLs that were on disk when the run started
UrlsBefore ==
    UNION {UrlsOf(pre.dayFiles[d].items) : d \in DOMAIN pre.dayFiles}
    \cup (IF Exists(pre.legacyFile)
          THEN {Doc(pre.legacyFile).items[i].item.url :
                    i \in 1..Len(Doc(pre.legacyFile).items)}
          ELSE {})

DroppedForAuthor == {x \in dropped : x.why \in {"no_author_login", "author_not_allowed"}}

----------------------------------------------------------------------------
\* one of the two requests for the allowed logins failed in this run
FetchFailed == "failed" \in {allow_fetch.members, allow_fetch.outside}

(* C18: in a run with --author-filter org in which the request for the     *)
(* organization members or the one for the outside collaborators failed,   *)
(* no file is ever written and the run does not complete.                  *)
C18_FetchFailureAborts ==
    (args.author_filter = "org" /\ FetchFailed) =>
        /\ writes = <<>>
        /\ Disk = pre
        /\ pc # "done"

----------------------------------------------------------------------------
\* the bucket document cannot be parsed, is no object or has no items array
BucketFails(doc) ==
    IF "json" \in DOMAIN doc THEN TRUE ELSE "items" \notin DOMAIN doc

\* the index document cannot be parsed, is no object, has no title or an empty
\* one, has no subtitle or has no days
IndexFails(doc) ==
    IF "json" \in DOMAIN doc THEN TRUE
    ELSE IF {"title", "subtitle", "days"} \ DOMAIN doc # {} THEN TRUE
    ELSE doc.title = ""

\* the days whose bucket file was unusable when the run started
FailedDays == {d \in DOMAIN pre.dayFiles : BucketFails(pre.dayFiles[d])}

IndexFailed == Exists(pre.indexFile) /\ IndexFails(Doc(pre.indexFile))

\* main is past the loading of the index and the bucket files and has not returned
PastLoading == pc \notin {"idle", "load_index", "aborted"}

(* C19: a run that started with an unusable bucket file goes on with that   *)
(* day holding nothing but what the run itself adds, and such a file is     *)
(* never what aborts a run; a run that started with an existing index file  *)
(* that fails validation gets no further than loading it, is aborted there, *)
(* and every file is as it was when the run started.                        *)
C19_DamagedFilesAtLoad ==
    /\ PastLoading =>
          \A d \in FailedDays :
              /\ d \in DOMAIN daily_by_day
              /\ UrlsOf(daily_by_day[d]) \subseteq {new_items[i].item.url : i \in 1..Len(new_items)}
    /\ pc = "aborted" =>
          /\ raised_by \in {"index", "state", "github"}
          /\ raised_by = "index" => IndexFailed
    /\ (pc # "idle" /\ IndexFailed) =>
          /\ pc \in {"load_index", "aborted"}
          /\ pc = "aborted" => raised_by = "index"
          /\ writes = <<>>
          /\ Disk = pre

\* a run is aborted at an index file that was cut short, nothing written; the
\* bucket file of the day is still the array it was at the start, which no
\* write of the script leaves behind, and the state file shows that an
\* earlier run was completed with it
C19_Witness ==
    /\ pc = "aborted"
    /\ raised_by = "index"
    /\ writes = <<>>
    /\ Doc(indexFile) = Damaged("partial")
    /\ dayFiles[FoundDay] = Damaged("array")
    /\ Exists(stateFile)
    /\ Whole(Doc(stateFile))

----------------------------------------------------------------------------
(* C20: a generator has exit code 0 only when its output file holds the    *)
(* snapshot of this run; once one of its queries or requests has failed    *)
(* the output file stays as the run found it, and the exit code is 1 for   *)
(* creator-fees and 2 for recent-orders and revenue.                       *)
C20_ExitCodeTellsFailure ==
    /\ gen_exit = <<0>> => gen_out = File(gen_payload[1])
    /\ gen_failed =>
          /\ gen_out = gen_pre
          /\ gen_pc = "exited" =>
                gen_exit = IF gen_name = "creator_fees" THEN <<1>> ELSE <<2>>

----------------------------------------------------------------------------
\* every URL held by a bucket file
StoredUrls == UNION {UrlsOf(dayFiles[d].items) : d \in DOMAIN dayFiles}

\* the saved cursor of the stream the item belongs to
SavedCursorOf(kind) == IF kind = "pr" THEN saved_pr_sync ELSE saved_commit_sync

\* the run with these locals wrote the entry into a bucket file, the file does
\* not hold it any more, and the saved cursor is at or past its time
LostBy(run, entry) ==
    /\ entry.item.url \in Range(run.added_urls)
    /\ entry.day \in run.touched_days
    /\ run.pending = <<>>
    /\ entry.item.url \notin StoredUrls
    /\ SavedCursorOf(entry.item.kind) >= entry.ts

(* C21: two runs on the same files are not kept apart: whenever a run      *)
(* writes a bucket file it replaces the file by the bucket it holds in     *)
(* memory, which is what it loaded when it started plus its own new items, *)
(* whatever the other run has written to that file in the meantime.  The   *)
(* witness is the interleaving in which this loses an item for good.       *)
C21_BucketWriteIgnoresOtherRun ==
    [][ (pc = "persist_days" /\ other' = other /\ dayFiles' # dayFiles) =>
            /\ dayFiles'[Head(pending)] = day_doc(Head(pending), Get(daily_by_day, Head(pending)))
            /\ \A d \in DOMAIN dayFiles : d # Head(pending) => dayFiles'[d] = dayFiles[d] ]_vars

\* both runs have returned; one of them had written an item to a bucket file,
\* the other run's write of that file has removed it, and the state file
\* saved last has the cursor at or past the item's time
C21_Witness ==
    /\ pc = "done" /\ other.pc = "done"
    /\ Exists(stateFile)
    /\ \E run \in {Locals, other} :
          \E i \in 1..Len(run.new_items) : LostBy(run, run.new_items[i])

----------------------------------------------------------------------------
\* the id is the first ten characters of raw, four stars, the last ten of raw
MaskedFormOf(id, raw) ==
    /\ Len(id) = 24
    /\ \A i \in 1..10 : id[i] = raw[i]
    /\ \A i \in 11..14 : id[i] = "*"
    /\ \A i \in 15..24 : id[i] = raw[Len(raw) - 24 + i]

\* the order ids of a snapshot file, none when the file is missing
OrderIdsIn(f) ==
    IF Exists(f) /\ Whole(Doc(f))
    THEN {Doc(f).orders[i].id : i \in 1..Len(Doc(f).orders)}
    ELSE {}

(* C22: the snapshot built by a run has one order for each row, in order;   *)
(* the id of a row of at most 20 characters is written as it is, the id of  *)
(* a longer row is written as its first 10 characters, "****" and its last  *)
(* 10 characters and so differs from the row's id; and no file, finished or *)
(* temporary, ever holds an id of more than 24 characters.                  *)
C22_OrderIdsMasked ==
    /\ gen_payload # <<>> =>
          /\ Len(gen_payload[1].orders) = Len(gen_rows)
          /\ \A i \in 1..Len(gen_rows) :
                LET raw == gen_rows[i]
                    id  == gen_payload[1].orders[i].id
                IN  /\ Len(raw) <= 20 => id = raw
                    /\ Len(raw) > 20 => (MaskedFormOf(id, raw) /\ id # raw)
    /\ \A f \in {gen_out, gen_tmp} : \A id \in OrderIdsIn(f) : Len(id) <= 24

\* the snapshot now at the output path was built from a UUID and from an id
\* of exactly 20 characters: the first is masked, the second is not
C22_Witness ==
    /\ gen_pc = "return"
    /\ gen_out = File(gen_payload[1])
    /\ Len(gen_rows) = 2
    /\ Len(gen_rows[1]) = 36 /\ Len(gen_payload[1].orders[1].id) = 24
    /\ Len(gen_rows[2]) = 20 /\ gen_payload[1].orders[2].id = gen_rows[2]

----------------------------------------------------------------------------
\* the run has written the index file and not yet returned from main
IndexWritten == pc \in {"persist_state", "done"} /\ Wrote("index")

\* the days the index file named when the run started
IndexedBefore == IF Exists(pre.indexFile) THEN Range(Doc(pre.indexFile).days) ELSE {}

(* C23 as stated: the day list of the index a run has written is the days   *)
(* that have a bucket file after the bucket writes together with the days   *)
(* the loaded index referenced, sorted descending.                          *)
C23_IndexDaysWithLoaded ==
    IndexWritten =>
        Doc(indexFile).days = SortedDesc(DOMAIN dayFiles \cup Range(days))

(* C23 amended: the day list of the index a run has written is exactly the  *)
(* days that have a bucket file after the bucket writes, sorted descending; *)
(* a day the loaded index referenced is in it only if its file exists.      *)
C23_IndexDaysAreFiles ==
    IndexWritten =>
        /\ Range(Doc(indexFile).days) = DOMAIN dayFiles
        /\ \A i, j \in 1..Len(Doc(indexFile).days) :
               i < j => Doc(indexFile).days[i] > Doc(indexFile).days[j]
        /\ \A d \in IndexedBefore : d \in Range(Doc(indexFile).days) <=> d \in DOMAIN dayFiles

\* the index found at the start named two days, one of them without a file;
\* the run added a file for a third day; the written index names the two
\* days that have files and not the one without
C23_Witness ==
    /\ IndexWritten
    /\ \E d \in IndexedBefore : d \notin DOMAIN dayFiles /\ d \notin Range(Doc(indexFile).days)
    /\ \E d \in IndexedBefore : d \in DOMAIN pre.dayFiles
    /\ \E d \in DOMAIN dayFiles : d \notin DOMAIN pre.dayFiles /\ d \notin IndexedBefore

----------------------------------------------------------------------------
\* the entry has a url and a title
WellFormed(it) == it.url # "" /\ it.title # <<>>

\* the well-formed items the bucket file of the day held when the run started
HeldBefore(d) ==
    IF d \in DOMAIN pre.dayFiles THEN SelectSeq(pre.dayFiles[d].items, WellFormed) ELSE <<>>

\* the URLs the run added on the day
AddedOn(d) ==
    {new_items[i].item.url : i \in {j \in 1..Len(new_items) :
        new_items[j].day = d /\ new_items[j].item.url \in Range(added_urls)}}

\* the run has written the bucket file of each day it touched
BucketsWritten == pc \in {"persist_index", "persist_state", "done"} /\ Wrote("day")

(* C24: once a run has written its bucket files, the file of every day it   *)
(* added items to holds first the items added by the run, each once, in    *)
(* descending order of their timestamps, and after them every well-formed   *)
(* item the file held when the run started, in the order it had there; the  *)
(* files of the other days are as they were.                                *)
C24_NewFirstOldKept ==
    BucketsWritten =>
        \A d \in DOMAIN dayFiles :
            LET items == dayFiles[d].items
                k     == Cardinality(AddedOn(d))
            IN  IF d \in touched_days
                THEN /\ k > 0
                     /\ Len(items) = k + Len(HeldBefore(d))
                     /\ {items[i].url : i \in 1..k} = AddedOn(d)
                     /\ \A i, j \in 1..k :
                           i < j => OccurredAt(items[i].url) >= OccurredAt(items[j].url)
                     /\ SubSeq(items, k + 1, Len(items)) = HeldBefore(d)
                ELSE d \in DOMAIN pre.dayFiles /\ dayFiles[d] = pre.dayFiles[d]

\* a pull request and an older commit of one day were added to a bucket that
\* held two well-formed items: the file now has the pull request, the
\* commit, and the two earlier items in their order
C24_Witness ==
    /\ BucketsWritten
    /\ BusyDay \in touched_days
    /\ Cardinality(AddedOn(BusyDay)) = 2
    /\ Len(HeldBefore(BusyDay)) = 2
    /\ dayFiles[BusyDay].items[1].kind = "pr"
    /\ dayFiles[BusyDay].items[2].kind = "commit"
    /\ SubSeq(dayFiles[BusyDay].items, 3, 4) = <<OlderItem, FoundItem>>

----------------------------------------------------------------------------
\* the run has written the state file and not yet returned from main
StateWritten == pc = "done" /\ Wrote("state")

\* the URLs of the bucket file of the day, first item first
UrlsInFile(d) == [i \in 1..Len(dayFiles[d].items) |-> dayFiles[d].items[i].url]

(* C25: in the state file a run has written, last_sync is the later of      *)
(* last_pr_sync and last_commit_sync; last_added_urls has at most 50        *)
(* entries; it is the list of the URLs the run put into the bucket files,   *)
(* in the order it put them, cut after the 50th; and it is empty when the   *)
(* run accepted nothing.                                                    *)
C25_StateFileShape ==
    StateWritten =>
        LET doc  == Doc(stateFile)
            kept == doc.last_added_urls
        IN  /\ parse_iso_datetime(doc.last_sync) >= saved_pr_sync
            /\ parse_iso_datetime(doc.last_sync) >= saved_commit_sync
            /\ parse_iso_datetime(doc.last_sync) \in {saved_pr_sync, saved_commit_sync}
            /\ Len(kept) <= 50
            /\ Len(kept) = (IF Len(added_urls) < 50 THEN Len(added_urls) ELSE 50)
            /\ \A i \in 1..Len(kept) : kept[i] = added_urls[i]
            /\ \A i \in 1..Len(kept) : kept[i] \in StoredUrls
            /\ \A d \in touched_days :
                  SelectSeq(UrlsInFile(d), LAMBDA u : u \in Range(added_urls))
                     = SelectSeq(added_urls, LAMBDA u : u \in Range(UrlsInFile(d)))
            /\ new_items = <<>> => kept = <<>>

\* a run added 52 items, the commits newer than the pull requests: the state
\* file has the first 50 URLs, a commit's first, and last_sync is the commit
\* cursor, which is later than the pull-request cursor
C25_Witness ==
    /\ StateWritten
    /\ Len(added_urls) = 52
    /\ Len(Doc(stateFile).last_added_urls) = 50
    /\ Doc(stateFile).last_added_urls[1] = added_urls[1]
    /\ new_items[1].item.kind = "commit"
    /\ saved_commit_sync > saved_pr_sync
    /\ parse_iso_datetime(Doc(stateFile).last_sync) = saved_commit_sync

\* C26: a run without state file starts both cursors at now - bootstrap_days;
\* with a state file each cursor is read from its own field when that holds a
\* text, otherwise from last_sync, otherwise it is the bootstrap default; and
\* _load_state applied to the file _save_state writes gives the two cursors
\* that were saved
HasText(doc, field) == field \in DOMAIN doc /\ doc[field] \in {IsoFormatZ(t) : t \in 0..8}
BootstrapDefault == now - BootstrapDays * DayLen
CursorFrom(doc, field) ==
    IF HasText(doc, field) THEN doc[field].date * DayLen + doc[field].time
    ELSE IF HasText(doc, "last_sync") THEN doc.last_sync.date * DayLen + doc.last_sync.time
    ELSE BootstrapDefault
StateLoaded == pc = "load_state" /\ pc' = "poll_prs"
StateSaved == pc = "persist_state" /\ pc' = "done"
C26_LoadState ==
    [][ /\ StateLoaded /\ ~Exists(stateFile) =>
            last_pr_sync' = BootstrapDefault /\ last_commit_sync' = BootstrapDefault
        /\ StateLoaded /\ Exists(stateFile) =>
            /\ last_pr_sync' = CursorFrom(Doc(stateFile), "last_pr_sync")
            /\ last_commit_sync' = CursorFrom(Doc(stateFile), "last_commit_sync")
        /\ StateSaved =>
            load_state(stateFile', now) =
                IF new_items = <<>> THEN <<last_pr_sync, last_commit_sync>>
                ELSE <<max_seen_pr_sync, max_seen_commit_sync>> ]_vars
\* a run read the pull-request cursor from last_sync and the commit cursor from
\* its own field, and has written a state file whose two cursors differ
C26_Witness ==
    /\ pc = "done" /\ Wrote("state")
    /\ Exists(pre.stateFile)
    /\ "last_pr_sync" \notin DOMAIN Doc(pre.stateFile)
    /\ HasText(Doc(pre.stateFile), "last_commit_sync")
    /\ last_pr_sync = 1 /\ last_commit_sync = 2
    /\ load_state(stateFile, now) # <<last_pr_sync, last_commit_sync>>
    /\ load_state(stateFile, now)[1] # load_state(stateFile, now)[2]

RECURSIVE Collected(_, _, _)
\* what the first n pages of the upstream hold for one search, in upstream order
Collected(kind, pages, n) ==
    IF n = 0 THEN <<>>
    ELSE Collected(kind, pages, n - 1) \o page_kept(kind, github_get_page(pages, n))

\* C27: a search poll returns; it has requested pages 1, 2, 3, ... in order,
\* each because fewer than max_items items were collected and every page
\* before was full; it stopped at the first empty page, the first page with
\* fewer than per_page items, or with at least max_items items collected; and
\* it returns the first max_items of the items of those pages, in upstream
\* order and with repeated items kept
C27_SearchTerminates ==
    /\ <>(search_pc = "returned")
    /\ [](search_pc = "returned" =>
           LET k == Len(requested)
               all == Collected(search_kind, upstream, k)
           IN  /\ \A i \in 1..k : requested[i] = i
               /\ \A i \in 1..k : Len(Collected(search_kind, upstream, i - 1)) < max_items
               /\ \A i \in 1..(k - 1) : Len(github_get_page(upstream, i)) = PerPage
               /\ \/ k > 0 /\ github_get_page(upstream, k) = <<>>
                  \/ k > 0 /\ Len(github_get_page(upstream, k)) < PerPage
                  \/ Len(all) >= max_items
               /\ Len(search_items) <= max_items
               /\ Len(search_items) = (IF Len(all) < max_items THEN Len(all) ELSE max_items)
               /\ \A i \in 1..Len(search_items) : search_items[i] = all[i])
\* three full pages were requested for --max-items 5 and the five items
\* returned hold the same result twice
C27_Witness ==
    /\ search_pc = "returned"
    /\ requested = <<1, 2, 3>>
    /\ max_items = MaxItems
    /\ Len(search_items) = 5
    /\ search_items[1] = search_items[3]
    /\ search_items[1] # search_items[2]

\* C28: no stored item has the same tag twice, whatever the repository is
\* called (violated: the fixed tags and the repository name are stored as
\* they are when there are no enrichment tags)
C28_TagsDeduplicated ==
    \A d \in DOMAIN dayFiles :
        \A i \in 1..Len(dayFiles[d].items) :
            LET t == dayFiles[d].items[i].tags
            IN  \A a, b \in 1..Len(t) : a # b => t[a] # t[b]

\* the URLs the legacy file holds
LegacyUrls(file) ==
    IF Exists(file) THEN {Doc(file).items[i].item.url : i \in 1..Len(Doc(file).items)} ELSE {}
\* the URLs the store holds now and did not hold when the run began
GainedUrls == StoreUrls(dayFiles) \ (StoreUrls(pre.dayFiles) \cup LegacyUrls(pre.legacyFile))
AcceptedOfKind(kind) == {i \in 1..Len(new_items) : new_items[i].item.kind = kind}
\* C29: a run accepts at most --max-new pull requests and at most
\* --max-new-commits commits, and a run that has persisted has added at most
\* max_new + max_new_commits items to the store
C29_CeilingsHold ==
    pc \notin {"idle", "aborted"} =>
        /\ new_prs_added <= args.max_new
        /\ new_commits_added <= args.max_new_commits
        /\ Cardinality(AcceptedOfKind("pr")) <= args.max_new
        /\ Cardinality(AcceptedOfKind("commit")) <= args.max_new_commits
        /\ Len(new_items) <= args.max_new + args.max_new_commits
        /\ Cardinality(GainedUrls) <= args.max_new + args.max_new_commits
\* the searches returned two pull requests that pass every check and the run,
\* with --max-new 1 and --max-new-commits 1, stored one of them and one commit
C29_Witness ==
    /\ Persisted
    /\ args.max_new = 1 /\ args.max_new_commits = 1
    /\ Cardinality(eligible_prs) = 2
    /\ new_prs_added = 1 /\ new_commits_added = 1
    /\ Cardinality(GainedUrls) = 2

\* the items of every bucket file
StoredItems == UNION {Range(dayFiles[d].items) : d \in DOMAIN dayFiles}
NoUrlTwice ==
    \A p, q \in Places(dayFiles) :
        p # q => dayFiles[p[1]].items[p[2]].url # dayFiles[q[1]].items[q[2]].url
\* a run was killed between its writes and no later run has reached its state write
KilledAndNotSaved == killed # <<>> /\ ~Wrote("state")
\* a run was killed between its writes and a later run has completed
KilledAndCompleted == killed # <<>> /\ Persisted
\* C30 as stated: after a kill between two whole-file writes the state file is
\* as it was, and a later complete run on the same search results leaves no
\* URL twice, every item the killed run wrote, and every item it accepted
\* (violated: without a state file the later run starts from a later
\* bootstrap cursor and drops an accepted item that fell behind it)
C30_CompleteRunRepairs ==
    /\ KilledAndNotSaved => stateFile = killed[1].state_before
    /\ KilledAndCompleted =>
          /\ NoUrlTwice
          /\ killed[1].written \subseteq StoredItems
          /\ killed[1].accepted \subseteq StoredItems
\* C30, amended: the accepted items are all stored when the killed run had
\* read its cursors from a state file
C30_CompleteRunRepairsFromState ==
    /\ KilledAndNotSaved => stateFile = killed[1].state_before
    /\ KilledAndCompleted =>
          /\ NoUrlTwice
          /\ killed[1].written \subseteq StoredItems
          /\ Exists(killed[1].state_before) => killed[1].accepted \subseteq StoredItems
\* the killed run had written one of two buckets; the complete run after it
\* has stored an accepted item the killed run had not written
C30_Witness ==
    /\ KilledAndCompleted
    /\ Exists(killed[1].state_before)
    /\ killed[1].written # {}
    /\ killed[1].accepted \ killed[1].written # {}
    /\ killed[1].accepted \subseteq StoredItems

====
